---- MODULE Spec2Model ----
(***************************************************************************)
(* A model of the BITOKI trading engine (src/src/bitoki): the Risk         *)
(* Manager's trade ledger, the Position Sizer, the retest confirmation of  *)
(* the Pattern Detector, the Order Executor and the polling loop of the    *)
(* Strategy Orchestrator.                                                  *)
(*                                                                         *)
(* Numbers.  Prices, balances, padding and pips are integers.  Position    *)
(* sizes and PnLs are exact rationals <<n, d>> with d > 0 in lowest terms  *)
(* (the code uses floats; rounding is not modelled).  Percentages are      *)
(* integer percents, and a comparison against "level * 0.98" is the        *)
(* integer comparison "100 * x < 98 * level".                              *)
(***************************************************************************)
EXTENDS Integers, Sequences, FiniteSets, TLC

----
(* Bounds of the model *)

\* trades the host and the orchestrator may register in one behaviour
MaxTrades == 2
\* calendar days the clock runs through (the day keys of daily_stats)
MaxDay == 2
\* milliseconds the clock runs through
MaxMs == 1
\* orders the exchange connector accepts in one behaviour
MaxOrders == 2
\* iterations of the polling loop in one behaviour
MaxIterations == 2
\* patterns one detect_patterns call returns
MaxPatterns == 1
\* bars of a candle series handed to the Pattern Detector
SeriesLen == 24

----
(* Exact rational arithmetic for sizes and PnLs *)

Abs(x) == IF x < 0 THEN -x ELSE x

RECURSIVE GCD(_, _)
GCD(a, b) == IF b = 0 THEN a ELSE GCD(b, a % b)

\* lowest terms, positive denominator; d # 0
Rat(n, d) ==
    LET g == GCD(Abs(n), Abs(d))
        s == IF d < 0 THEN -1 ELSE 1
    IN  <<(s * n) \div g, (s * d) \div g>>

RZero == <<0, 1>>
RInt(i) == <<i, 1>>
RAdd(p, q) == Rat(p[1] * q[2] + q[1] * p[2], p[2] * q[2])
RMulInt(p, i) == Rat(p[1] * i, p[2])
RLess(p, q) == p[1] * q[2] < q[1] * p[2]
RLeq(p, q) == p[1] * q[2] <= q[1] * p[2]

----
(* Sequence helpers *)

RemoveAt(s, i) == SubSeq(s, 1, i - 1) \o SubSeq(s, i + 1, Len(s))

\* index of the first trade of ts with the order id, 0 when there is none
FirstIndex(ts, order_id) ==
    IF \E i \in 1..Len(ts) : ts[i].order_id = order_id
    THEN CHOOSE i \in 1..Len(ts) :
            /\ ts[i].order_id = order_id
            /\ \A j \in 1..(i - 1) : ts[j].order_id # order_id
    ELSE 0

----
(* State *)

VARIABLES
    config,         \* Config: the values supplied once at startup
    pc,             \* TradingStrategy: position of the control loop
    running,        \* TradingStrategy.running
    stop_called,    \* history: stop() was called during this run
    iteration,      \* run(): local iteration counter
    tf_idx,         \* run(): index into config.timeframes
    ohlcv,          \* _process_timeframe: the fetched candle series
    patterns,       \* _process_timeframe: the detected patterns the for loop has yet to process
    eval,           \* _process_pattern: locals and calls of the evaluation
    open_trades,    \* RiskManager.open_trades
    closed_trades,  \* RiskManager.closed_trades
    daily_stats,    \* RiskManager.daily_stats: day key -> {trade_count, pnl}
    next_uid,       \* identity of the next Trade object constructed
    today,          \* datetime.now().date()
    now_ms,         \* int(time.time() * 1000)
    exchange_calls, \* calls the exchange connector received from the last
                    \* operation of the Order Executor
    exchange_seq,   \* orders the exchange connector has accepted (its ids)
    last            \* history: the last operation, its arguments and result

vars == <<config, pc, running, stop_called, iteration, tf_idx, ohlcv, patterns,
          eval, open_trades, closed_trades, daily_stats, next_uid,
          today, now_ms, exchange_calls, exchange_seq, last>>

ledger == <<open_trades, closed_trades, daily_stats>>
loop_vars == <<pc, running, stop_called, iteration, tf_idx, ohlcv, patterns,
               eval>>

----
(* Risk Manager: src/src/bitoki/risk/risk_manager.py *)

\* Trade(...): a freshly constructed Trade object; uid is its identity
Trade(uid, order_id, side, size, entry_price, stop_loss, take_profit, pattern_type) ==
    [uid |-> uid, order_id |-> order_id, side |-> side, size |-> size,
     entry_price |-> entry_price, stop_loss |-> stop_loss,
     take_profit |-> take_profit, status |-> "open", pnl |-> RZero,
     exit_price |-> 0, pattern_type |-> pattern_type]

NewDay == [trade_count |-> 0, pnl |-> RZero]

\* self.daily_stats.get(day, {}).get('trade_count', 0)
DailyTradeCount(ds, day) == IF day \in DOMAIN ds THEN ds[day].trade_count ELSE 0
\* self.daily_stats.get(day, {}).get('pnl', 0.0)
DailyPnl(ds, day) == IF day \in DOMAIN ds THEN ds[day].pnl ELSE RZero

\* if today not in self.daily_stats: self.daily_stats[today] = {...}
EnsureDay(ds, day) ==
    IF day \in DOMAIN ds THEN ds
    ELSE [k \in DOMAIN ds \cup {day} |-> IF k = day THEN NewDay ELSE ds[k]]

\* a can_open_trade that checks the daily loss before the concurrency limit
can_open_trade_loss_first(ot, ds, day, cfg, account_balance, has_high_impact_news) ==
    LET daily_trades == DailyTradeCount(ds, day)
        daily_pnl == DailyPnl(ds, day)
        neg_max_loss == <<-(account_balance * cfg.daily_loss_limit_pct), 100>>
    IN  IF RLess(daily_pnl, neg_max_loss)
        THEN [ok |-> FALSE, reason |-> "Daily loss limit reached", daily_stats |-> ds]
        ELSE IF Len(ot) >= cfg.max_concurrent_trades
        THEN [ok |-> FALSE, reason |-> "Max concurrent trades reached", daily_stats |-> ds]
        ELSE IF daily_trades >= cfg.max_trades_per_day
        THEN [ok |-> FALSE, reason |-> "Max daily trades reached", daily_stats |-> ds]
        ELSE IF has_high_impact_news
        THEN [ok |-> FALSE, reason |-> "High-impact news nearby", daily_stats |-> ds]
        ELSE [ok |-> TRUE, reason |-> "OK", daily_stats |-> ds]

\* a can_open_trade that reads today's entry with setdefault, creating the key
can_open_trade_creates_day(ot, ds, day, cfg, account_balance, has_high_impact_news) ==
    LET ds1 == EnsureDay(ds, day)
        neg_max_loss == <<-(account_balance * cfg.daily_loss_limit_pct), 100>>
    IN  IF Len(ot) >= cfg.max_concurrent_trades
        THEN [ok |-> FALSE, reason |-> "Max concurrent trades reached", daily_stats |-> ds]
        ELSE IF ds1[day].trade_count >= cfg.max_trades_per_day
        THEN [ok |-> FALSE, reason |-> "Max daily trades reached", daily_stats |-> ds1]
        ELSE IF RLess(ds1[day].pnl, neg_max_loss)
        THEN [ok |-> FALSE, reason |-> "Daily loss limit reached", daily_stats |-> ds1]
        ELSE IF has_high_impact_news
        THEN [ok |-> FALSE, reason |-> "High-impact news nearby", daily_stats |-> ds1]
        ELSE [ok |-> TRUE, reason |-> "OK", daily_stats |-> ds1]

\* a can_open_trade that denies only above max_concurrent_trades
can_open_trade_one_over(ot, ds, day, cfg, account_balance, has_high_impact_news) ==
    LET daily_trades == DailyTradeCount(ds, day)
        daily_pnl == DailyPnl(ds, day)
        neg_max_loss == <<-(account_balance * cfg.daily_loss_limit_pct), 100>>
    IN  IF Len(ot) > cfg.max_concurrent_trades
        THEN [ok |-> FALSE, reason |-> "Max concurrent trades reached", daily_stats |-> ds]
        ELSE IF daily_trades >= cfg.max_trades_per_day
        THEN [ok |-> FALSE, reason |-> "Max daily trades reached", daily_stats |-> ds]
        ELSE IF RLess(daily_pnl, neg_max_loss)
        THEN [ok |-> FALSE, reason |-> "Daily loss limit reached", daily_stats |-> ds]
        ELSE IF has_high_impact_news
        THEN [ok |-> FALSE, reason |-> "High-impact news nearby", daily_stats |-> ds]
        ELSE [ok |-> TRUE, reason |-> "OK", daily_stats |-> ds]

\* can_open_trade: the verdict, the reason and the daily_stats map it leaves
can_open_trade(ot, ds, day, cfg, account_balance, has_high_impact_news) ==
    LET daily_trades == DailyTradeCount(ds, day)
        daily_pnl == DailyPnl(ds, day)
        \* -max_loss = -(account_balance * daily_loss_limit_pct)
        neg_max_loss == <<-(account_balance * cfg.daily_loss_limit_pct), 100>>
    IN  IF Len(ot) >= cfg.max_concurrent_trades
        THEN [ok |-> FALSE, reason |-> "Max concurrent trades reached", daily_stats |-> ds]
        ELSE IF daily_trades >= cfg.max_trades_per_day
        THEN [ok |-> FALSE, reason |-> "Max daily trades reached", daily_stats |-> ds]
        ELSE IF RLess(daily_pnl, neg_max_loss)
        THEN [ok |-> FALSE, reason |-> "Daily loss limit reached", daily_stats |-> ds]
        ELSE IF has_high_impact_news
        THEN [ok |-> FALSE, reason |-> "High-impact news nearby", daily_stats |-> ds]
        ELSE [ok |-> TRUE, reason |-> "OK", daily_stats |-> ds]

\* an add_trade that appends the trade and leaves the day's trade_count alone
add_trade_uncounted(ot, ct, ds, day, trade) ==
    [open_trades |-> Append(ot, trade),
     closed_trades |-> ct,
     daily_stats |-> EnsureDay(ds, day)]

\* an add_trade that closes the oldest open trade to make room for the new one
add_trade_closes_oldest(ot, ct, ds, day, trade) ==
    LET ds1 == EnsureDay(ds, day)
    IN  [open_trades |-> IF ot = <<>> THEN <<trade>> ELSE Append(Tail(ot), trade),
         closed_trades |-> IF ot = <<>> THEN ct
                           ELSE Append(ct, [Head(ot) EXCEPT !.status = "closed"]),
         daily_stats |-> [ds1 EXCEPT ![day].trade_count = @ + 1]]

\* add_trade: the ledger after the call
add_trade(ot, ct, ds, day, trade) ==
    LET ds1 == EnsureDay(ds, day)
    IN  [open_trades |-> Append(ot, trade),
         closed_trades |-> ct,
         daily_stats |-> [ds1 EXCEPT ![day].trade_count = @ + 1]]

\* a close_trade that appends to closed_trades without removing from open_trades
close_trade_keeps_open(ot, ct, ds, day, order_id, exit_price, status) ==
    LET i == FirstIndex(ot, order_id)
    IN  IF i = 0
        THEN [open_trades |-> ot, closed_trades |-> ct, daily_stats |-> ds,
              found |-> FALSE, raised |-> FALSE, pnl |-> RZero]
        ELSE
            LET trade == ot[i]
                pnl == IF trade.side = "buy"
                       THEN RMulInt(trade.size, exit_price - trade.entry_price)
                       ELSE RMulInt(trade.size, trade.entry_price - exit_price)
                closed == [trade EXCEPT !.exit_price = exit_price, !.pnl = pnl,
                                        !.status = status]
                ds1 == EnsureDay(ds, day)
            IN  [open_trades |-> ot,
                 closed_trades |-> Append(ct, closed),
                 daily_stats |-> [ds1 EXCEPT ![day].pnl = RAdd(@, pnl)],
                 found |-> TRUE,
                 raised |-> (trade.entry_price = 0 \/ trade.size[1] = 0),
                 pnl |-> pnl]

\* a close_trade that computes the PnL of every trade as that of a buy
close_trade_as_buy(ot, ct, ds, day, order_id, exit_price, status) ==
    LET i == FirstIndex(ot, order_id)
    IN  IF i = 0
        THEN [open_trades |-> ot, closed_trades |-> ct, daily_stats |-> ds,
              found |-> FALSE, raised |-> FALSE, pnl |-> RZero]
        ELSE
            LET trade == ot[i]
                pnl == RMulInt(trade.size, exit_price - trade.entry_price)
                closed == [trade EXCEPT !.exit_price = exit_price, !.pnl = pnl,
                                        !.status = status]
                ds1 == EnsureDay(ds, day)
            IN  [open_trades |-> RemoveAt(ot, i),
                 closed_trades |-> Append(ct, closed),
                 daily_stats |-> [ds1 EXCEPT ![day].pnl = RAdd(@, pnl)],
                 found |-> TRUE,
                 raised |-> (trade.entry_price = 0 \/ trade.size[1] = 0),
                 pnl |-> pnl]

\* a close_trade that, for an order id absent from open_trades, looks the trade
\* up in closed_trades and accumulates its PnL again
close_trade_recounts(ot, ct, ds, day, order_id, exit_price, status) ==
    LET i == FirstIndex(ot, order_id)
        k == FirstIndex(ct, order_id)
    IN  IF i = 0
        THEN [open_trades |-> ot, closed_trades |-> ct,
              daily_stats |-> IF k = 0 THEN ds
                              ELSE [EnsureDay(ds, day) EXCEPT
                                        ![day].pnl = RAdd(@, ct[k].pnl)],
              found |-> FALSE, raised |-> FALSE, pnl |-> RZero]
        ELSE
            LET trade == ot[i]
                pnl == IF trade.side = "buy"
                       THEN RMulInt(trade.size, exit_price - trade.entry_price)
                       ELSE RMulInt(trade.size, trade.entry_price - exit_price)
                closed == [trade EXCEPT !.exit_price = exit_price, !.pnl = pnl,
                                        !.status = status]
                ds1 == EnsureDay(ds, day)
            IN  [open_trades |-> RemoveAt(ot, i),
                 closed_trades |-> Append(ct, closed),
                 daily_stats |-> [ds1 EXCEPT ![day].pnl = RAdd(@, pnl)],
                 found |-> TRUE,
                 raised |-> (trade.entry_price = 0 \/ trade.size[1] = 0),
                 pnl |-> pnl]

\* close_trade: the ledger after the call, whether the trade was found, and
\* whether the call raised (the percentage of the closing log line divides by
\* entry_price and by size, after the ledger was updated)
close_trade(ot, ct, ds, day, order_id, exit_price, status) ==
    LET i == FirstIndex(ot, order_id)
    IN  IF i = 0
        THEN [open_trades |-> ot, closed_trades |-> ct, daily_stats |-> ds,
              found |-> FALSE, raised |-> FALSE, pnl |-> RZero]
        ELSE
            LET trade == ot[i]
                pnl == IF trade.side = "buy"
                       THEN RMulInt(trade.size, exit_price - trade.entry_price)
                       ELSE RMulInt(trade.size, trade.entry_price - exit_price)
                closed == [trade EXCEPT !.exit_price = exit_price, !.pnl = pnl,
                                        !.status = status]
                ds1 == EnsureDay(ds, day)
            IN  [open_trades |-> RemoveAt(ot, i),
                 closed_trades |-> Append(ct, closed),
                 daily_stats |-> [ds1 EXCEPT ![day].pnl = RAdd(@, pnl)],
                 found |-> TRUE,
                 raised |-> (trade.entry_price = 0 \/ trade.size[1] = 0),
                 pnl |-> pnl]

\* cleanup_old_stats: drops the day keys before the cutoff date
cleanup_old_stats(ds, day, days_to_keep) ==
    LET cutoff_date == day - days_to_keep
    IN  [k \in {d \in DOMAIN ds : ~(d < cutoff_date)} |-> ds[k]]

RECURSIVE SumPnl(_)
SumPnl(ts) == IF ts = <<>> THEN RZero ELSE RAdd(ts[1].pnl, SumPnl(Tail(ts)))

IsWin(t) == RLess(RZero, t.pnl)
IsLoss(t) == RLeq(t.pnl, RZero)

\* sum(t.pnl for t in ts) / len(ts) if ts else 0.0
AvgPnl(ts) == IF ts = <<>> THEN RZero ELSE Rat(SumPnl(ts)[1], SumPnl(ts)[2] * Len(ts))

\* max((t.pnl for t in ts), default=0.0)
LargestPnl(ts) ==
    IF ts = <<>> THEN RZero
    ELSE LET i == CHOOSE i \in 1..Len(ts) : \A j \in 1..Len(ts) : RLeq(ts[j].pnl, ts[i].pnl)
         IN  ts[i].pnl

\* min((t.pnl for t in ts), default=0.0)
SmallestPnl(ts) ==
    IF ts = <<>> THEN RZero
    ELSE LET i == CHOOSE i \in 1..Len(ts) : \A j \in 1..Len(ts) : RLeq(ts[i].pnl, ts[j].pnl)
         IN  ts[i].pnl

\* get_statistics: the dictionary it returns, as a function of its keys
get_statistics(ot, ct, ds, day) ==
    IF ct = <<>>
    THEN [k \in {"total_trades", "winning_trades", "losing_trades", "win_rate",
                 "total_pnl", "avg_win", "avg_loss", "largest_win",
                 "largest_loss"} |-> RZero]
    ELSE
        LET wins == SelectSeq(ct, IsWin)
            losses == SelectSeq(ct, IsLoss)
        IN  [total_trades |-> RInt(Len(ct)),
             winning_trades |-> RInt(Len(wins)),
             losing_trades |-> RInt(Len(losses)),
             win_rate |-> Rat(Len(wins) * 100, Len(ct)),
             total_pnl |-> SumPnl(ct),
             avg_win |-> AvgPnl(wins),
             avg_loss |-> AvgPnl(losses),
             largest_win |-> LargestPnl(wins),
             largest_loss |-> SmallestPnl(losses),
             open_trades |-> RInt(Len(ot)),
             daily_pnl |-> DailyPnl(ds, day),
             daily_trades |-> RInt(DailyTradeCount(ds, day))]

----
(* Pattern Detector: src/src/bitoki/patterns/detector.py                     *)
(* A candle series is a sequence of bars [high, low, close].  An optional    *)
(* field of a Pattern that is None is 0 here: every use of such a field in   *)
(* the code tests its truthiness or applies "or 0".                          *)

Pattern(type, formation_bar_index, neckline_price, left_shoulder, head, right_shoulder, rectangle_top, rectangle_bottom) ==
    [type |-> type, formation_bar_index |-> formation_bar_index,
     neckline_price |-> neckline_price, left_shoulder |-> left_shoulder,
     head |-> head, right_shoulder |-> right_shoulder,
     rectangle_top |-> rectangle_top, rectangle_bottom |-> rectangle_bottom]

\* ohlcv.tail(n)
TailBars(bars, n) ==
    IF Len(bars) <= n THEN bars ELSE SubSeq(bars, Len(bars) - n + 1, Len(bars))

\* any(abs(recent[col].iloc[i] - target_level) <= tolerance for i in range(-5, 0))
\* with tolerance = target_level * 0.02
Tested(recent, col, target_level) ==
    \E i \in (Len(recent) - 4)..Len(recent) :
        100 * Abs(recent[i][col] - target_level) <= 2 * target_level

\* confirm_retest(pattern, ohlcv)
confirm_retest(pattern, bars) ==
    IF Len(bars) < 5 THEN FALSE
    ELSE
        LET recent == TailBars(bars, 10)
            current_price == recent[Len(recent)].close
        IN  CASE pattern.type = "ErectHnS" ->
                    /\ Tested(recent, "high", pattern.right_shoulder)
                    /\ 100 * current_price < 98 * pattern.right_shoulder
              [] pattern.type = "InvertedHnS" ->
                    /\ Tested(recent, "low", pattern.right_shoulder)
                    /\ 100 * current_price > 102 * pattern.right_shoulder
              [] pattern.type = "DoubleTop" ->
                    /\ Tested(recent, "low", pattern.neckline_price)
                    /\ 100 * current_price < 98 * pattern.neckline_price
              [] pattern.type = "ErectRect" ->
                    /\ Tested(recent, "low", pattern.neckline_price)
                    /\ 100 * current_price > 101 * pattern.neckline_price
              [] pattern.type = "InvRect" ->
                    /\ Tested(recent, "high", pattern.neckline_price)
                    /\ 100 * current_price < 99 * pattern.neckline_price
              [] OTHER -> FALSE

\* the detector the strategy constructs: PatternDetector(min_pattern_bars=20,
\* max_pattern_bars=100, symmetry_tolerance=0.15), the tolerance in hundredths
PatternDetector ==
    [min_pattern_bars |-> 20, max_pattern_bars |-> 100, symmetry_tolerance |-> 15]

\* df.iloc[p]: the positions of a frame count from 0
At(bars, p) == bars[p + 1]

\* df['high'].rolling(window=11, center=True).max() == df['high'] at position
\* p: a window that is not full gives NaN, which equals nothing
SwingHigh(bars, p) ==
    /\ p - 5 >= 0
    /\ p + 5 <= Len(bars) - 1
    /\ \A q \in (p - 5)..(p + 5) : At(bars, q).high <= At(bars, p).high

\* df['low'].rolling(window=11, center=True).min() == df['low'] at position p
SwingLow(bars, p) ==
    /\ p - 5 >= 0
    /\ p + 5 <= Len(bars) - 1
    /\ \A q \in (p - 5)..(p + 5) : At(bars, q).low >= At(bars, p).low

\* df[df['swing']]: the positions of the swing points, in the order of the frame
swing_points(bars, erect) ==
    SelectSeq([i \in 1..Len(bars) |-> i - 1],
              LAMBDA p : IF erect THEN SwingHigh(bars, p) ELSE SwingLow(bars, p))

\* df.loc[a:b, 'low'].min(), both ends included
MinLow(bars, a, b) ==
    CHOOSE m \in {At(bars, q).low : q \in a..b} : \A q \in a..b : m <= At(bars, q).low

\* df.loc[a:b, 'high'].max(), both ends included
MaxHigh(bars, a, b) ==
    CHOOSE m \in {At(bars, q).high : q \in a..b} : \A q \in a..b : m >= At(bars, q).high

\* patterns.append over the passes of a for loop: the finds of the passes, in order
RECURSIVE Concat(_)
Concat(finds) ==
    IF finds = <<>> THEN <<>> ELSE Head(finds) \o Concat(Tail(finds))

\* _detect_head_and_shoulders(ohlcv, erect).  The mean of the two troughs (or
\* peaks) is a whole number for series whose bars share the parity of their
\* lows and of their highs.
detect_head_and_shoulders(bars, erect) ==
    LET col == IF erect THEN "high" ELSE "low"
        sw == swing_points(bars, erect)
        Found(i) ==
            LET left_idx == sw[i]
                head_idx == sw[i + 1]
                right_idx == sw[i + 2]
                left_price == At(bars, left_idx)[col]
                head_price == At(bars, head_idx)[col]
                right_price == At(bars, right_idx)[col]
                structure ==
                    IF erect THEN head_price > left_price /\ head_price > right_price
                    ELSE head_price < left_price /\ head_price < right_price
                shoulder_diff == Abs(left_price - right_price)
                shoulder_sum == left_price + right_price
                \* symmetry_ratio > self.symmetry_tolerance, the ratio 1 for a zero mean
                asymmetric ==
                    IF shoulder_sum = 0 THEN TRUE
                    ELSE 200 * shoulder_diff > PatternDetector.symmetry_tolerance * shoulder_sum
                neckline ==
                    IF erect
                    THEN (MinLow(bars, left_idx, head_idx) + MinLow(bars, head_idx, right_idx)) \div 2
                    ELSE (MaxHigh(bars, left_idx, head_idx) + MaxHigh(bars, head_idx, right_idx)) \div 2
                bars_since == Len(bars) - right_idx
            IN  IF ~structure \/ asymmetric \/ bars_since > 20 THEN <<>>
                ELSE <<Pattern(IF erect THEN "ErectHnS" ELSE "InvertedHnS", right_idx,
                               neckline, left_price, head_price, right_price, 0, 0)>>
    IN  IF Len(sw) < 3 THEN <<>>
        ELSE Concat([i \in 1..(Len(sw) - 2) |-> Found(i)])

\* _detect_double_top(ohlcv)
detect_double_top(bars) ==
    LET sw == swing_points(bars, TRUE)
        Found(i) ==
            LET first_idx == sw[i]
                second_idx == sw[i + 1]
                first_peak == At(bars, first_idx).high
                second_peak == At(bars, second_idx).high
                peak_diff == Abs(first_peak - second_peak)
                peak_sum == first_peak + second_peak
                dissimilar ==
                    IF peak_sum = 0 THEN TRUE
                    ELSE 200 * peak_diff > PatternDetector.symmetry_tolerance * peak_sum
                trough == MinLow(bars, first_idx, second_idx)
                \* depth_ratio < 0.02 with depth = peak_avg - trough
                shallow == 100 * (peak_sum - 2 * trough) < 2 * peak_sum
                bars_since == Len(bars) - second_idx
            IN  IF dissimilar \/ shallow \/ bars_since > 20 THEN <<>>
                ELSE <<Pattern("DoubleTop", second_idx, trough, first_peak, 0, second_peak, 0, 0)>>
    IN  IF Len(sw) < 2 THEN <<>>
        ELSE Concat([i \in 1..(Len(sw) - 1) |-> Found(i)])

\* _detect_rectangles(ohlcv, erect): positions are those of ohlcv.tail(100);
\* df.iloc[i-20:i] counts a negative start from the end of the frame, and the
\* NaN extremes of an empty lookback leave no touches
detect_rectangles(bars, erect) ==
    LET df == TailBars(bars, 100)
        n == Len(df)
        bars_back == PatternDetector.min_pattern_bars
        Found(i) ==
            LET start == IF i - bars_back < 0 THEN i - bars_back + n ELSE i - bars_back
                resistance == MaxHigh(df, start, i - 1)
                support == MinLow(df, start, i - 1)
                range_size == resistance - support
                level_sum == resistance + support
                \* range_ratio < 0.02 or range_ratio > 0.15, mid_price = level_sum / 2
                loose == 200 * range_size < 2 * level_sum \/ 200 * range_size > 15 * level_sum
                touches_resistance ==
                    Cardinality({q \in start..(i - 1) : 100 * At(df, q).high >= 99 * resistance})
                touches_support ==
                    Cardinality({q \in start..(i - 1) : 100 * At(df, q).low <= 101 * support})
                current_price == At(df, i).close
            IN  IF start > i - 1 THEN <<>>
                ELSE IF loose \/ touches_resistance < 2 \/ touches_support < 2 THEN <<>>
                ELSE IF erect /\ current_price > resistance
                THEN <<Pattern("ErectRect", i, resistance, 0, 0, 0, resistance, support)>>
                ELSE IF ~erect /\ current_price < support
                THEN <<Pattern("InvRect", i, support, 0, 0, 0, resistance, support)>>
                ELSE <<>>
    IN  IF n < bars_back THEN <<>>
        ELSE Concat([k \in 1..bars_back |-> Found(n - bars_back + k - 1)])

\* detect_patterns(ohlcv): the finds of the five scans, one scan after the other
detect_patterns(bars) ==
    IF Len(bars) < PatternDetector.min_pattern_bars THEN <<>>
    ELSE detect_head_and_shoulders(bars, TRUE)
         \o detect_head_and_shoulders(bars, FALSE)
         \o detect_double_top(bars)
         \o detect_rectangles(bars, TRUE)
         \o detect_rectangles(bars, FALSE)

----
(* Position Sizer: src/src/bitoki/risk/position_sizer.py                     *)
(* Stop-loss prices and sizes are rationals; entry and take-profit integers. *)

Max2(a, b) == IF a >= b THEN a ELSE b

\* a calculate_position_size that divides by the signed distance entry - stop
calculate_position_size_signed(cfg, account_balance, entry_price, stop_loss_price) ==
    IF account_balance <= 0 THEN RZero
    ELSE IF entry_price <= 0 \/ stop_loss_price[1] <= 0 THEN RZero
    ELSE
        LET sl_distance == <<entry_price * stop_loss_price[2] - stop_loss_price[1],
                             stop_loss_price[2]>>
        IN  IF sl_distance[1] = 0 THEN RZero
            ELSE Rat(account_balance * cfg.risk_pct * sl_distance[2],
                     100 * sl_distance[1])

\* calculate_position_size(account_balance, entry_price, stop_loss_price)
calculate_position_size(cfg, account_balance, entry_price, stop_loss_price) ==
    IF account_balance <= 0 THEN RZero
    ELSE IF entry_price <= 0 \/ stop_loss_price[1] <= 0 THEN RZero
    ELSE
        LET \* abs(entry_price - stop_loss_price), as a rational
            sl_distance == <<Abs(entry_price * stop_loss_price[2] - stop_loss_price[1]),
                             stop_loss_price[2]>>
        IN  IF sl_distance[1] = 0 THEN RZero
            \* (account_balance * risk_pct) / sl_distance
            ELSE Rat(account_balance * cfg.risk_pct * sl_distance[2],
                     100 * sl_distance[1])

\* _calculate_structural_stoploss: [found, price]; found = FALSE is None
NoStop == [found |-> FALSE, price |-> RZero]
SomeStop(price) == [found |-> TRUE, price |-> RInt(price)]

structural_stoploss(cfg, pattern, side) ==
    LET padding == cfg.stoploss_padding_points
    IN  CASE pattern.type = "ErectHnS" ->
                IF side = "sell" /\ pattern.right_shoulder # 0
                THEN SomeStop(pattern.right_shoulder + padding) ELSE NoStop
          [] pattern.type = "InvertedHnS" ->
                IF side = "buy" /\ pattern.right_shoulder # 0
                THEN SomeStop(pattern.right_shoulder - padding) ELSE NoStop
          [] pattern.type = "DoubleTop" ->
                IF side = "sell"
                THEN SomeStop(Max2(pattern.left_shoulder, pattern.right_shoulder) + padding)
                ELSE NoStop
          [] pattern.type = "ErectRect" ->
                IF side = "buy" /\ pattern.rectangle_bottom # 0
                THEN SomeStop(pattern.rectangle_bottom - padding) ELSE NoStop
          [] pattern.type = "InvRect" ->
                IF side = "sell" /\ pattern.rectangle_top # 0
                THEN SomeStop(pattern.rectangle_top + padding) ELSE NoStop
          [] OTHER -> NoStop

\* the true range of bar i: max(high - low, |high - prev close|, |low - prev close|);
\* the first bar has no previous close and max() skips the missing values
TrueRange(bars, i) ==
    LET hl == bars[i].high - bars[i].low
    IN  IF i = 1 THEN hl
        ELSE Max2(hl, Max2(Abs(bars[i].high - bars[i - 1].close),
                           Abs(bars[i].low - bars[i - 1].close)))

RECURSIVE SumTrueRange(_, _, _)
SumTrueRange(bars, from, to) ==
    IF from > to THEN 0 ELSE TrueRange(bars, from) + SumTrueRange(bars, from + 1, to)

\* calculate_atr: the rolling mean of the true range at the last bar, 0.0 when
\* fewer than atr_period bars exist
calculate_atr(cfg, bars) ==
    IF Len(bars) < cfg.atr_period THEN RZero
    ELSE Rat(SumTrueRange(bars, Len(bars) - cfg.atr_period + 1, Len(bars)),
             cfg.atr_period)

\* _calculate_atr_stoploss(ohlcv, entry_price, side)
atr_stoploss(cfg, bars, entry_price, side) ==
    LET sl_distance == RMulInt(calculate_atr(cfg, bars), cfg.atr_multiplier)
    IN  IF side = "buy"
        THEN RAdd(RInt(entry_price), RMulInt(sl_distance, -1))
        ELSE RAdd(RInt(entry_price), sl_distance)

\* calculate_stop_loss(pattern, ohlcv, side)
calculate_stop_loss(cfg, pattern, bars, side) ==
    LET structural_sl == structural_stoploss(cfg, pattern, side)
    IN  IF structural_sl.found THEN structural_sl.price
        ELSE atr_stoploss(cfg, bars, bars[Len(bars)].close, side)

\* calculate_take_profit(entry_price, side, pips)
calculate_take_profit(cfg, entry_price, side, pips) ==
    LET pip_value == pips * cfg.pips_unit_in_usd
    IN  IF side = "buy" THEN entry_price + pip_value ELSE entry_price - pip_value

\* the default bounds of is_size_allowed: min_size = 0.0001, max_size = 100.0
DefaultMinSize == <<1, 10000>>
DefaultMaxSize == <<100, 1>>

\* an is_size_allowed that also rejects a size equal to the minimum
is_size_allowed_open_min(size, min_size, max_size) ==
    IF RLeq(size, min_size) THEN FALSE
    ELSE IF RLess(max_size, size) THEN FALSE
    ELSE TRUE

\* is_size_allowed(size, min_size, max_size)
is_size_allowed(size, min_size, max_size) ==
    IF RLess(size, min_size) THEN FALSE
    ELSE IF RLess(max_size, size) THEN FALSE
    ELSE TRUE

----
(* Order Executor: src/src/bitoki/trading/executor.py                        *)
(* The exchange connector is the environment: exch says how it answers the   *)
(* primary order and the two bracket legs of one place_order call.           *)

OrderResult(success, order_id, error) ==
    [success |-> success, order_id |-> order_id, error |-> error]

NoOrderId == <<"", 0>>

\* one call of exchange.create_order
CreateOrder(type, side, amount, price, reduce_only) ==
    [method |-> "create_order", type |-> type, side |-> side, amount |-> amount,
     price |-> price, reduce_only |-> reduce_only]

\* _simulate_order: the id is "DRY_" + the clock in milliseconds
simulate_order(now, side, size, entry_price, sl_price, tp_price) ==
    [result |-> OrderResult(TRUE, <<"DRY", now>>, ""), calls |-> <<>>,
     sl_order |-> "None", tp_order |-> "None"]

\* _place_market_order / _place_limit_order: the create_order call, and the order
\* returned; every exception of the connector is caught and gives None
place_main_order(order_type, side, size, entry_price, outcome) ==
    [call |-> IF order_type = "market"
              THEN CreateOrder("market", side, size, RZero, FALSE)
              ELSE CreateOrder("limit", side, size, RInt(entry_price), FALSE),
     order |-> IF outcome = "accepted" THEN "order" ELSE "None"]

\* _place_stop_loss: a reduce-only stop order on the opposite side
place_stop_loss(side, size, stop_price) ==
    CreateOrder("stop_market", IF side = "buy" THEN "sell" ELSE "buy", size,
                stop_price, TRUE)

\* _place_take_profit: a reduce-only limit order on the opposite side
place_take_profit(side, size, tp_price) ==
    CreateOrder("limit", IF side = "buy" THEN "sell" ELSE "buy", size,
                RInt(tp_price), TRUE)

\* a place_order whose simulation branch tests for the mode name "simulate"
place_order_tests_simulate(trade_mode, order_type, now, exchange_id, side, size, entry_price, sl_price, tp_price, exch) ==
    IF trade_mode = "simulate"
    THEN simulate_order(now, side, size, entry_price, sl_price, tp_price)
    ELSE
        LET main == place_main_order(order_type, side, size, entry_price, exch.primary)
        IN  IF main.order = "None"
            THEN [result |-> OrderResult(FALSE, NoOrderId, "Failed to place main order"),
                  calls |-> <<main.call>>,
                  sl_order |-> "None", tp_order |-> "None"]
            ELSE [result |-> OrderResult(TRUE, exchange_id, ""),
                  calls |-> <<main.call,
                              place_stop_loss(side, size, sl_price),
                              place_take_profit(side, size, tp_price)>>,
                  sl_order |-> IF exch.sl_ok THEN "order" ELSE "None",
                  tp_order |-> IF exch.tp_ok THEN "order" ELSE "None"]

\* a place_order that gives up when the stop-loss leg failed
place_order_stops_after_failed_leg(trade_mode, order_type, now, exchange_id, side, size, entry_price, sl_price, tp_price, exch) ==
    IF trade_mode = "dry_run"
    THEN simulate_order(now, side, size, entry_price, sl_price, tp_price)
    ELSE
        LET main == place_main_order(order_type, side, size, entry_price, exch.primary)
        IN  IF main.order = "None"
            THEN [result |-> OrderResult(FALSE, NoOrderId, "Failed to place main order"),
                  calls |-> <<main.call>>,
                  sl_order |-> "None", tp_order |-> "None"]
            ELSE IF ~exch.sl_ok
            THEN [result |-> OrderResult(FALSE, NoOrderId, "Failed to place stop loss"),
                  calls |-> <<main.call, place_stop_loss(side, size, sl_price)>>,
                  sl_order |-> "None", tp_order |-> "None"]
            ELSE [result |-> OrderResult(TRUE, exchange_id, ""),
                  calls |-> <<main.call,
                              place_stop_loss(side, size, sl_price),
                              place_take_profit(side, size, tp_price)>>,
                  sl_order |-> "order",
                  tp_order |-> IF exch.tp_ok THEN "order" ELSE "None"]

\* a place_order that submits the two legs whatever became of the primary order
place_order_legs_regardless(trade_mode, order_type, now, exchange_id, side, size, entry_price, sl_price, tp_price, exch) ==
    IF trade_mode = "dry_run"
    THEN simulate_order(now, side, size, entry_price, sl_price, tp_price)
    ELSE
        LET main == place_main_order(order_type, side, size, entry_price, exch.primary)
        IN  [result |-> IF main.order = "None"
                        THEN OrderResult(FALSE, NoOrderId, "Failed to place main order")
                        ELSE OrderResult(TRUE, exchange_id, ""),
             calls |-> <<main.call,
                         place_stop_loss(side, size, sl_price),
                         place_take_profit(side, size, tp_price)>>,
             sl_order |-> IF exch.sl_ok THEN "order" ELSE "None",
             tp_order |-> IF exch.tp_ok THEN "order" ELSE "None"]

\* place_order: the OrderResult and the calls the exchange connector received
place_order(trade_mode, order_type, now, exchange_id, side, size, entry_price, sl_price, tp_price, exch) ==
    IF trade_mode = "dry_run"
    THEN simulate_order(now, side, size, entry_price, sl_price, tp_price)
    ELSE
        LET main == place_main_order(order_type, side, size, entry_price, exch.primary)
        IN  IF main.order = "None"
            THEN [result |-> OrderResult(FALSE, NoOrderId, "Failed to place main order"),
                  calls |-> <<main.call>>,
                  sl_order |-> "None", tp_order |-> "None"]
            ELSE [result |-> OrderResult(TRUE, exchange_id, ""),
                  calls |-> <<main.call,
                              place_stop_loss(side, size, sl_price),
                              place_take_profit(side, size, tp_price)>>,
                  sl_order |-> IF exch.sl_ok THEN "order" ELSE "None",
                  tp_order |-> IF exch.tp_ok THEN "order" ELSE "None"]

\* cancel_order: the boolean returned and the calls the connector received
cancel_order(trade_mode, order_id, exchange_ok) ==
    IF trade_mode = "dry_run"
    THEN [ok |-> TRUE, calls |-> <<>>]
    ELSE [ok |-> exchange_ok,
          calls |-> <<[method |-> "cancel_order", order_id |-> order_id]>>]

\* get_order_status: the order returned (None on an error) and the calls
get_order_status(trade_mode, order_id, exchange_ok) ==
    IF trade_mode = "dry_run"
    THEN [order |-> [id |-> order_id, status |-> "open", simulated |-> TRUE],
          calls |-> <<>>]
    ELSE [order |-> IF exchange_ok
                    THEN [id |-> order_id, status |-> "open", simulated |-> FALSE]
                    ELSE [id |-> NoOrderId, status |-> "None", simulated |-> FALSE],
          calls |-> <<[method |-> "fetch_order", order_id |-> order_id]>>]

----
(* Configuration: src/src/bitoki/config.py.  The values are supplied once at *)
(* startup; the model draws them from small sets around the defaults.        *)

PatternTypes == {"ErectHnS", "InvertedHnS", "DoubleTop", "ErectRect", "InvRect"}

\* str.lower() on the mode names the model configures
Lower(s) ==
    CASE s = "DRY_RUN" -> "dry_run"
      [] s = "LIVE" -> "live"
      [] OTHER -> s

DefaultConfig ==
    [timeframes |-> <<"1h", "4h">>,
     allowed_patterns |-> PatternTypes,
     risk_pct |-> 2,
     take_profit_pips |-> 20,
     pips_unit_in_usd |-> 1,
     stoploss_padding_points |-> 10,
     atr_period |-> 14,
     atr_multiplier |-> 2,
     max_concurrent_trades |-> 3,
     daily_loss_limit_pct |-> 10,
     max_trades_per_day |-> 10,
     trade_mode |-> "dry_run",
     order_type |-> "market"]

\* limits small enough for the ledger of the model to reach them
RMConfigs ==
    {[DefaultConfig EXCEPT !.max_concurrent_trades = c, !.max_trades_per_day = 2] :
        c \in {1, 2}}

----
(* Initial state: the objects as TradingStrategy.__init__ constructs them *)

NoEval == [active |-> FALSE]
NoOp == [op |-> "none"]

EmptyLedger ==
    [open_trades |-> <<>>, closed_trades |-> <<>>, daily_stats |-> <<>>, next_uid |-> 1]

InitWith(Cfgs, Ledgers) ==
    /\ config \in Cfgs
    /\ pc = "idle"
    /\ running = FALSE
    /\ stop_called = FALSE
    /\ iteration = 0
    /\ tf_idx = 0
    /\ ohlcv = <<>>
    /\ patterns = <<>>
    /\ eval = NoEval
    /\ \E l \in Ledgers :
        /\ open_trades = l.open_trades
        /\ closed_trades = l.closed_trades
        /\ daily_stats = l.daily_stats
        /\ next_uid = l.next_uid
    /\ today = 1
    /\ now_ms = 0
    /\ exchange_calls = <<>>
    /\ exchange_seq = 0
    /\ last = NoOp

----
(* The host program calling the Risk Manager before run() *)

HostOrderIds == {<<"H", 1>>, <<"H", 2>>}
\* the orders the host registers: a long one and a short one
HostTrades == {[order_id |-> <<"H", 1>>, side |-> "buy"],
               [order_id |-> <<"H", 2>>, side |-> "sell"]}
HostSizes == {RInt(2)}
HostEntries == {100}
HostExits == {90, 110}
Balances == {0, 1000}

\* risk_manager.add_trade(Trade(...)) with a freshly constructed Trade
AddTrade ==
    /\ pc = "idle"
    /\ next_uid <= MaxTrades
    /\ \E kind \in HostTrades, size \in HostSizes, entry_price \in HostEntries :
        LET order_id == kind.order_id
            side == kind.side
            trade == Trade(next_uid, order_id, side, size, entry_price,
                           RInt(IF side = "buy" THEN entry_price - 10 ELSE entry_price + 10),
                           IF side = "buy" THEN entry_price + 20 ELSE entry_price - 20,
                           "")
            r == add_trade(open_trades, closed_trades, daily_stats, today, trade)
        IN  /\ open_trades' = r.open_trades
            /\ closed_trades' = r.closed_trades
            /\ daily_stats' = r.daily_stats
            /\ last' = [op |-> "add_trade", uid |-> next_uid]
    /\ next_uid' = next_uid + 1
    /\ UNCHANGED <<config, loop_vars, today, now_ms, exchange_calls, exchange_seq>>

\* risk_manager.close_trade(order_id, exit_price)
CloseTrade ==
    /\ pc = "idle"
    /\ \E order_id \in HostOrderIds, exit_price \in HostExits :
        LET r == close_trade(open_trades, closed_trades, daily_stats, today,
                             order_id, exit_price, "closed")
        IN  /\ open_trades' = r.open_trades
            /\ closed_trades' = r.closed_trades
            /\ daily_stats' = r.daily_stats
            /\ last' = [op |-> "close_trade", order_id |-> order_id,
                        found |-> r.found, raised |-> r.raised]
    /\ UNCHANGED <<config, loop_vars, next_uid, today, now_ms, exchange_calls, exchange_seq>>

\* risk_manager.can_open_trade(account_balance, has_high_impact_news)
CanOpenTrade ==
    /\ pc = "idle"
    /\ \E account_balance \in Balances, news \in BOOLEAN :
        LET r == can_open_trade(open_trades, daily_stats, today, config,
                                account_balance, news)
        IN  /\ daily_stats' = r.daily_stats
            /\ last' = [op |-> "can_open_trade", ok |-> r.ok, reason |-> r.reason,
                        account_balance |-> account_balance, news |-> news,
                        n_open |-> Len(open_trades),
                        daily_trades |-> DailyTradeCount(daily_stats, today),
                        daily_pnl |-> DailyPnl(daily_stats, today)]
    /\ UNCHANGED <<config, loop_vars, open_trades, closed_trades, next_uid,
                   today, now_ms, exchange_calls, exchange_seq>>

\* risk_manager.cleanup_old_stats(days_to_keep)
CleanupOldStats ==
    /\ pc = "idle"
    /\ \E days_to_keep \in {0, 1} :
        /\ daily_stats' = cleanup_old_stats(daily_stats, today, days_to_keep)
        /\ last' = [op |-> "cleanup_old_stats", days_to_keep |-> days_to_keep]
    /\ UNCHANGED <<config, loop_vars, open_trades, closed_trades, next_uid,
                   today, now_ms, exchange_calls, exchange_seq>>

\* midnight passes: datetime.now().date() moves to the next day
NextDay ==
    /\ pc = "idle"
    /\ today < MaxDay
    /\ today' = today + 1
    /\ UNCHANGED <<config, loop_vars, ledger, next_uid, now_ms, exchange_calls, exchange_seq, last>>

InitRM == InitWith(RMConfigs, {EmptyLedger})

NextRM == AddTrade \/ CloseTrade \/ CanOpenTrade \/ CleanupOldStats \/ NextDay

\* the Risk Manager driven through its public methods
SpecRM == InitRM /\ [][NextRM]_vars

----
(* The host program calling the Order Executor *)

\* OrderExecutor.__init__: self.trade_mode = trade_mode.lower(), on the value the
\* Config.trade_mode property has already lowered
ExecutorMode == Lower(Lower(config.trade_mode))
ExecutorOrderType == Lower(config.order_type)

\* how the exchange connector answers one place_order call
ExchangeBehaviours ==
    [primary : {"accepted", "InsufficientFunds", "InvalidOrder", "NetworkError", "empty"},
     sl_ok : BOOLEAN, tp_ok : BOOLEAN]

ExConfigs ==
    {[DefaultConfig EXCEPT !.trade_mode = m, !.order_type = t] :
        m \in {"dry_run", "DRY_RUN", "live", "simulate"}, t \in {"market", "limit"}}

ExOrderIds == {<<"DRY", 0>>, <<"EX", 1>>}

\* time passes: time.time() moves to the next millisecond
ClockTick ==
    /\ pc = "idle"
    /\ now_ms < MaxMs
    /\ now_ms' = now_ms + 1
    /\ UNCHANGED <<config, loop_vars, ledger, next_uid, today, exchange_calls,
                   exchange_seq, last>>

\* order_executor.place_order(symbol, side, size, entry_price, sl_price, tp_price)
ExPlaceOrder ==
    /\ pc = "idle"
    /\ exchange_seq < MaxOrders
    /\ \E side \in {"buy", "sell"}, size \in {RZero, RInt(2)}, exch \in ExchangeBehaviours,
          entry_price \in HostEntries :
        LET r == place_order(ExecutorMode, ExecutorOrderType, now_ms,
                             <<"EX", exchange_seq + 1>>, side, size, entry_price,
                             RInt(IF side = "buy" THEN entry_price - 10 ELSE entry_price + 10),
                             IF side = "buy" THEN entry_price + 20 ELSE entry_price - 20,
                             exch)
        IN  /\ exchange_calls' = r.calls
            /\ exchange_seq' = IF r.result.success /\ r.calls # <<>>
                               THEN exchange_seq + 1 ELSE exchange_seq
            /\ last' = [op |-> "place_order", result |-> r.result, side |-> side,
                        size |-> size, sl_order |-> r.sl_order,
                        tp_order |-> r.tp_order, primary |-> exch.primary]
    /\ UNCHANGED <<config, loop_vars, ledger, next_uid, today, now_ms>>

\* order_executor.cancel_order(order_id, symbol)
ExCancelOrder ==
    /\ pc = "idle"
    /\ \E order_id \in ExOrderIds, exchange_ok \in BOOLEAN :
        LET r == cancel_order(ExecutorMode, order_id, exchange_ok)
        IN  /\ exchange_calls' = r.calls
            /\ last' = [op |-> "cancel_order", order_id |-> order_id, ok |-> r.ok]
    /\ UNCHANGED <<config, loop_vars, ledger, next_uid, today, now_ms, exchange_seq>>

\* order_executor.get_order_status(order_id, symbol)
ExGetOrderStatus ==
    /\ pc = "idle"
    /\ \E order_id \in ExOrderIds, exchange_ok \in BOOLEAN :
        LET r == get_order_status(ExecutorMode, order_id, exchange_ok)
        IN  /\ exchange_calls' = r.calls
            /\ last' = [op |-> "get_order_status", order_id |-> order_id,
                        order |-> r.order]
    /\ UNCHANGED <<config, loop_vars, ledger, next_uid, today, now_ms, exchange_seq>>

InitEx == InitWith(ExConfigs, {EmptyLedger})

NextEx == ExPlaceOrder \/ ExCancelOrder \/ ExGetOrderStatus \/ ClockTick

\* the Order Executor driven through its public methods
SpecEx == InitEx /\ [][NextEx]_vars

----
(* Strategy Orchestrator: src/src/bitoki/strategy.py, _process_pattern       *)
(* eval holds the locals of one pattern evaluation and, in calls, the calls  *)
(* it made to its collaborators, in order.                                   *)

NoResult == OrderResult(FALSE, NoOrderId, "")

Call(fn, ret) == [fn |-> fn, ret |-> ret]

StartEval(pattern) ==
    [active |-> TRUE, pattern |-> pattern, outcome |-> "pending", calls |-> <<>>,
     side |-> "", entry_price |-> 0, sl_price |-> RZero, tp_price |-> 0,
     position_size |-> RZero, account_balance |-> 0, order_result |-> NoResult]

\* a _get_trade_side that buys on a double top
get_trade_side_buys_double_top(pattern) ==
    CASE pattern.type = "ErectHnS" -> "sell"
      [] pattern.type = "InvertedHnS" -> "buy"
      [] pattern.type = "DoubleTop" -> "buy"
      [] pattern.type = "ErectRect" -> "buy"
      [] pattern.type = "InvRect" -> "sell"
      [] OTHER -> ""

\* _get_trade_side(pattern)
get_trade_side(pattern) ==
    CASE pattern.type = "ErectHnS" -> "sell"
      [] pattern.type = "InvertedHnS" -> "buy"
      [] pattern.type = "DoubleTop" -> "sell"
      [] pattern.type = "ErectRect" -> "buy"
      [] pattern.type = "InvRect" -> "sell"
      [] OTHER -> ""

\* if pattern.type not in self.config.allowed_patterns: return
filter_stage(cfg, e) ==
    IF e.outcome # "pending" THEN e
    ELSE IF e.pattern.type \notin cfg.allowed_patterns
    THEN [e EXCEPT !.outcome = "not_allowed"]
    ELSE e

\* a variant that calls confirm_retest and goes on whatever it returned
retest_stage_ignores_result(e, bars) ==
    IF e.outcome # "pending" THEN e
    ELSE [e EXCEPT !.calls = Append(@, Call("confirm_retest",
                                            confirm_retest(e.pattern, bars)))]

\* if not self.pattern_detector.confirm_retest(pattern, ohlcv): return
retest_stage(e, bars) ==
    IF e.outcome # "pending" THEN e
    ELSE
        LET confirmed == confirm_retest(e.pattern, bars)
            e1 == [e EXCEPT !.calls = Append(@, Call("confirm_retest", confirmed))]
        IN  IF ~confirmed THEN [e1 EXCEPT !.outcome = "no_retest"] ELSE e1

\* side = self._get_trade_side(pattern); entry_price = ohlcv['close'].iloc[-1]
side_stage(e, bars) ==
    IF e.outcome # "pending" THEN e
    ELSE
        LET side == get_trade_side(e.pattern)
        IN  IF side = "" THEN [e EXCEPT !.outcome = "no_side"]
            ELSE [e EXCEPT !.side = side, !.entry_price = bars[Len(bars)].close]

\* balance_info = self.market_data.get_balance(), inside try/except;
\* bal = [raised, usdt]: the call raised, or the 'total'/'USDT' amount it returned
balance_stage(e, bal) ==
    IF e.outcome # "pending" THEN e
    ELSE
        LET e1 == [e EXCEPT !.calls = Append(@, Call("get_balance", ~bal.raised))]
        IN  IF bal.raised THEN [e1 EXCEPT !.outcome = "balance_error"]
            ELSE IF bal.usdt <= 0 THEN [e1 EXCEPT !.outcome = "no_balance"]
            ELSE [e1 EXCEPT !.account_balance = bal.usdt]

\* a variant that computes the size and never rejects it
size_stage_unchecked(cfg, e, bars) ==
    IF e.outcome # "pending" THEN e
    ELSE
        LET sl_price == calculate_stop_loss(cfg, e.pattern, bars, e.side)
            position_size == calculate_position_size(cfg, e.account_balance,
                                                     e.entry_price, sl_price)
        IN  [e EXCEPT !.sl_price = sl_price,
                      !.tp_price = calculate_take_profit(cfg, e.entry_price, e.side,
                                                         cfg.take_profit_pips),
                      !.position_size = position_size,
                      !.calls = Append(@, Call("is_size_allowed", TRUE))]

\* stop loss, take profit and position size, then
\* if not self.position_sizer.is_size_allowed(position_size): return
size_stage(cfg, e, bars) ==
    IF e.outcome # "pending" THEN e
    ELSE
        LET sl_price == calculate_stop_loss(cfg, e.pattern, bars, e.side)
            tp_price == calculate_take_profit(cfg, e.entry_price, e.side,
                                              cfg.take_profit_pips)
            position_size == calculate_position_size(cfg, e.account_balance,
                                                     e.entry_price, sl_price)
            allowed == is_size_allowed(position_size, DefaultMinSize, DefaultMaxSize)
            e1 == [e EXCEPT !.sl_price = sl_price, !.tp_price = tp_price,
                            !.position_size = position_size,
                            !.calls = Append(@, Call("is_size_allowed", allowed))]
        IN  IF ~allowed THEN [e1 EXCEPT !.outcome = "size_rejected"] ELSE e1

\* a variant that asks the gate and goes on to the order whatever it answered
gate_stage_ignores_denial(cfg, e, ot, ds, day) ==
    IF e.outcome # "pending" THEN [eval |-> e, daily_stats |-> ds]
    ELSE
        LET g == can_open_trade(ot, ds, day, cfg, e.account_balance, FALSE)
        IN  [eval |-> [e EXCEPT !.calls = Append(@, Call("can_open_trade", g.ok)),
                                !.outcome = "approved"],
             daily_stats |-> g.daily_stats]

\* can_trade, reason = self.risk_manager.can_open_trade(account_balance, False);
\* if not can_trade: return.  Gives the evaluation and the daily_stats the gate left.
gate_stage(cfg, e, ot, ds, day) ==
    IF e.outcome # "pending" THEN [eval |-> e, daily_stats |-> ds]
    ELSE
        LET g == can_open_trade(ot, ds, day, cfg, e.account_balance, FALSE)
            e1 == [e EXCEPT !.calls = Append(@, Call("can_open_trade", g.ok))]
        IN  [eval |-> IF ~g.ok THEN [e1 EXCEPT !.outcome = "gate_denied"]
                      ELSE [e1 EXCEPT !.outcome = "approved"],
             daily_stats |-> g.daily_stats]

\* _process_pattern up to the decision to place the order
process_pattern_checks(cfg, pattern, bars, bal, ot, ds, day) ==
    gate_stage(cfg,
               size_stage(cfg,
                          balance_stage(side_stage(retest_stage(
                                            filter_stage(cfg, StartEval(pattern)),
                                            bars), bars), bal),
                          bars),
               ot, ds, day)

----
(* Inputs of the polling loop.  ohlcv holds the last bars of the fetched     *)
(* series: the bars confirm_retest, the entry price and the ATR read.  The   *)
(* patterns are formations the five scans can emit around the level 100.     *)

Bar(high, low, close) == [high |-> high, low |-> low, close |-> close]

FlatBar == Bar(101, 99, 100)
SeriesDown == <<FlatBar, FlatBar, FlatBar, FlatBar, Bar(100, 96, 97)>>
SeriesUp == <<FlatBar, FlatBar, FlatBar, FlatBar, Bar(104, 100, 103)>>
SeriesFlat == <<FlatBar, FlatBar, FlatBar, FlatBar, FlatBar>>

CandleSeries == {<<>>, SeriesDown, SeriesUp, SeriesFlat}

\* fetch_ohlcv raises (it re-raises every connector error) or returns a series
FetchResults ==
    {[raised |-> TRUE, bars |-> <<>>]} \cup {[raised |-> FALSE, bars |-> b] : b \in CandleSeries}

CandidatePatterns ==
    {Pattern("ErectHnS", 95, 90, 100, 110, 100, 0, 0),
     Pattern("InvertedHnS", 95, 110, 100, 90, 100, 0, 0),
     Pattern("DoubleTop", 95, 100, 110, 0, 110, 0, 0),
     Pattern("ErectRect", 98, 100, 0, 0, 0, 100, 90),
     Pattern("InvRect", 98, 100, 0, 0, 0, 110, 100)}

\* the place of a pattern type in the order detect_patterns runs its five scans
ScanRank(type) ==
    CASE type = "ErectHnS" -> 1
      [] type = "InvertedHnS" -> 2
      [] type = "DoubleTop" -> 3
      [] type = "ErectRect" -> 4
      [] type = "InvRect" -> 5

\* the lists detect_patterns may return: the outputs of the scans, concatenated
PatternLists ==
    {l \in UNION {[1..n -> CandidatePatterns] : n \in 0..MaxPatterns} :
        \A i \in 1..(Len(l) - 1) : ScanRank(l[i].type) <= ScanRank(l[i + 1].type)}

\* get_balance raises, or returns the USDT total
BalanceResults ==
    {[raised |-> TRUE, usdt |-> 0]} \cup {[raised |-> FALSE, usdt |-> b] : b \in {0, 1000, 100000}}

OrchBase ==
    [DefaultConfig EXCEPT !.max_concurrent_trades = 2, !.max_trades_per_day = 2,
                          !.atr_period = 2]

\* polling a single timeframe
OneTimeframe == [OrchBase EXCEPT !.timeframes = <<"1h">>]

\* the configurations of the orchestrator: two timeframes with the base values,
\* and one timeframe with a single value changed
OrchConfigs ==
    {OrchBase,
     [OneTimeframe EXCEPT !.trade_mode = "live"],
     [OneTimeframe EXCEPT !.allowed_patterns = {"ErectHnS", "ErectRect"}],
     [OneTimeframe EXCEPT !.stoploss_padding_points = -3],
     [OneTimeframe EXCEPT !.stoploss_padding_points = 100],
     [OneTimeframe EXCEPT !.take_profit_pips = 0]}

\* the ledger run() starts on: as constructed, or after the host registered a
\* trade and closed it with a profit through the Risk Manager
SeededTrade == Trade(1, <<"H", 1>>, "buy", RInt(2), 100, RInt(90), 120, "")

ClosedLedger ==
    LET a == add_trade(<<>>, <<>>, <<>>, 1, SeededTrade)
        c == close_trade(a.open_trades, a.closed_trades, a.daily_stats, 1,
                         <<"H", 1>>, 110, "closed")
    IN  [open_trades |-> c.open_trades, closed_trades |-> c.closed_trades,
         daily_stats |-> c.daily_stats, next_uid |-> 2]

----
(* Strategy Orchestrator: the control loop *)

\* run(): self.running = True; iteration = 0
Run ==
    /\ pc = "idle"
    /\ pc' = "loop"
    /\ running' = TRUE
    /\ iteration' = 0
    /\ last' = [op |-> "run"]
    /\ UNCHANGED <<config, stop_called, tf_idx, ohlcv, patterns, eval, ledger,
                   next_uid, today, now_ms, exchange_calls, exchange_seq>>

\* a loop that tests "while True" and so goes on after stop()
LoopTest_while_true ==
    /\ pc = "loop"
    /\ iteration < MaxIterations
    /\ iteration' = iteration + 1
    /\ tf_idx' = 1
    /\ pc' = "timeframes"
    /\ UNCHANGED <<running, last>>
    /\ UNCHANGED <<config, stop_called, ohlcv, patterns, eval, ledger, next_uid,
                   today, now_ms, exchange_calls, exchange_seq>>

\* while self.running: iteration += 1 ... ; after the loop, the finally block
LoopTest ==
    /\ pc = "loop"
    /\ IF running
       THEN /\ iteration < MaxIterations
            /\ iteration' = iteration + 1
            /\ tf_idx' = 1
            /\ pc' = "timeframes"
            /\ UNCHANGED <<running, last>>
       ELSE /\ pc' = "stopped"
            /\ running' = FALSE
            /\ last' = [op |-> "run_exit", cause |-> "stop"]
            /\ UNCHANGED <<iteration, tf_idx>>
    /\ UNCHANGED <<config, stop_called, ohlcv, patterns, eval, ledger, next_uid,
                   today, now_ms, exchange_calls, exchange_seq>>

\* what a pass of _process_timeframe met: how it ended, the candle fetch
\* ("raised", "empty", "some") and the news lookup ("unread" when not reached)
TimeframeSeen(outcome, candles, news) ==
    [op |-> "process_timeframe", outcome |-> outcome, candles |-> candles, news |-> news]

\* a _process_timeframe whose handler lets an exception leave the loop
TimeframeEnds_error_leaves_loop(outcome, candles, news) ==
    /\ last' = TimeframeSeen(outcome, candles, news)
    /\ tf_idx' = tf_idx + 1
    /\ pc' = IF outcome = "error" THEN "stopped" ELSE pc
    /\ UNCHANGED <<ohlcv, patterns>>

\* a _process_timeframe that goes on to the patterns in spite of the news
TimeframeEnds_trades_on_news(outcome, candles, news) ==
    /\ last' = TimeframeSeen(outcome, candles, news)
    /\ IF outcome = "news"
       THEN /\ ohlcv' = SeriesDown
            /\ patterns' \in {l \in PatternLists : l # <<>>}
            /\ pc' = "pattern"
            /\ UNCHANGED tf_idx
       ELSE /\ tf_idx' = tf_idx + 1
            /\ UNCHANGED <<ohlcv, patterns, pc>>

\* _process_timeframe left before the loop over the patterns
TimeframeEnds(outcome, candles, news) ==
    /\ last' = TimeframeSeen(outcome, candles, news)
    /\ tf_idx' = tf_idx + 1
    /\ UNCHANGED <<ohlcv, patterns, pc>>

\* for timeframe in self.config.timeframes: self._process_timeframe(timeframe),
\* up to the loop over the patterns: the fetch, the news check, the detection
ProcessTimeframe ==
    /\ pc = "timeframes"
    /\ tf_idx <= Len(config.timeframes)
    /\ \E fetched \in FetchResults :
        IF fetched.raised THEN TimeframeEnds("error", "raised", "unread")
        ELSE IF fetched.bars = <<>> THEN TimeframeEnds("no_data", "empty", "unread")
        ELSE \E news \in {"raised", "high_impact", "none"} :
            IF news = "raised" THEN TimeframeEnds("error", "some", news)
            ELSE IF news = "high_impact" THEN TimeframeEnds("news", "some", news)
            ELSE \E detected \in PatternLists :
                IF detected = <<>> THEN TimeframeEnds("no_patterns", "some", news)
                ELSE /\ last' = TimeframeSeen("patterns", "some", news)
                     /\ ohlcv' = fetched.bars
                     /\ patterns' = detected
                     /\ pc' = "pattern"
                     /\ UNCHANGED tf_idx
    /\ UNCHANGED <<config, running, stop_called, iteration, eval, ledger, next_uid,
                   today, now_ms, exchange_calls, exchange_seq>>

\* the dates datetime.now().date() may give when it is read next
DaysFrom(day) == {d \in {day, day + 1} : d <= MaxDay}
\* the values int(time.time() * 1000) may give when it is read next
MsFrom(ms) == {t \in {ms, ms + 1} : t <= MaxMs}

\* _process_pattern(pattern, ...) from the allow-list filter to the risk gate
EvaluatePattern ==
    /\ pc = "pattern"
    /\ patterns # <<>>
    /\ \E bal \in BalanceResults, day \in DaysFrom(today) :
        LET r == process_pattern_checks(config, Head(patterns), ohlcv, bal,
                                        open_trades, daily_stats, day)
        IN  /\ today' = day
            /\ eval' = r.eval
            /\ daily_stats' = r.daily_stats
            /\ pc' = IF r.eval.outcome = "approved" THEN "place_order" ELSE "pattern"
    /\ patterns' = Tail(patterns)
    /\ last' = [op |-> "evaluate_pattern"]
    /\ UNCHANGED <<config, running, stop_called, iteration, tf_idx, ohlcv,
                   open_trades, closed_trades, next_uid, now_ms,
                   exchange_calls, exchange_seq>>

\* order_result = self.order_executor.place_order(...)
PlaceOrder ==
    /\ pc = "place_order"
    /\ \E exch \in ExchangeBehaviours, now \in MsFrom(now_ms) :
        LET r == place_order(ExecutorMode, ExecutorOrderType, now,
                             <<"EX", exchange_seq + 1>>, eval.side, eval.position_size,
                             eval.entry_price, eval.sl_price, eval.tp_price, exch)
        IN  /\ now_ms' = now
            /\ eval' = [eval EXCEPT !.calls = Append(@, Call("place_order", r.result.success)),
                                    !.order_result = r.result]
            /\ exchange_calls' = r.calls
            /\ exchange_seq' = IF r.result.success /\ r.calls # <<>>
                               THEN exchange_seq + 1 ELSE exchange_seq
            /\ last' = [op |-> "place_order", result |-> r.result, side |-> eval.side,
                        size |-> eval.position_size,
                        sl_order |-> r.sl_order, tp_order |-> r.tp_order]
    /\ pc' = "register"
    /\ UNCHANGED <<config, running, stop_called, iteration, tf_idx, ohlcv, patterns,
                   ledger, next_uid, today>>

\* if order_result.success: self.risk_manager.add_trade(Trade(...))
RegisterTrade ==
    /\ pc = "register"
    /\ IF eval.order_result.success
       THEN \E day \in DaysFrom(today) :
            LET trade == Trade(next_uid, eval.order_result.order_id, eval.side,
                               eval.position_size, eval.entry_price, eval.sl_price,
                               eval.tp_price, eval.pattern.type)
                r == add_trade(open_trades, closed_trades, daily_stats, day, trade)
            IN  /\ today' = day
                /\ open_trades' = r.open_trades
                /\ closed_trades' = r.closed_trades
                /\ daily_stats' = r.daily_stats
                /\ next_uid' = next_uid + 1
                /\ eval' = [eval EXCEPT !.calls = Append(@, Call("add_trade", TRUE))]
                /\ last' = [op |-> "add_trade", uid |-> next_uid]
       ELSE /\ UNCHANGED <<ledger, next_uid, eval, today>>
            /\ last' = [op |-> "order_failed"]
    /\ pc' = "pattern"
    /\ UNCHANGED <<config, running, stop_called, iteration, tf_idx, ohlcv, patterns,
                   now_ms, exchange_calls, exchange_seq>>

\* the loop over the patterns of the timeframe is exhausted
PatternsDone ==
    /\ pc = "pattern"
    /\ patterns = <<>>
    /\ tf_idx' = tf_idx + 1
    /\ pc' = "timeframes"
    /\ eval' = NoEval
    /\ ohlcv' = <<>>
    /\ UNCHANGED <<config, running, stop_called, iteration, patterns, ledger, next_uid, today,
                   now_ms, exchange_calls, exchange_seq, last>>

\* the keys of the statistics dictionary _print_statistics formats
PrintedKeys ==
    {"open_trades", "daily_trades", "daily_pnl", "total_trades", "win_rate", "total_pnl"}

\* _print_statistics raises KeyError when get_statistics returned no such key
print_statistics_raises(ot, ct, ds, day) ==
    ~(PrintedKeys \subseteq DOMAIN get_statistics(ot, ct, ds, day))

\* self._print_statistics(), after the loop over the timeframes; an exception
\* leaves the while loop through "except Exception" and the finally block
PrintStatistics ==
    /\ pc = "timeframes"
    /\ tf_idx > Len(config.timeframes)
    /\ \E day \in DaysFrom(today) :
        /\ today' = day
        /\ IF print_statistics_raises(open_trades, closed_trades, daily_stats, day)
           THEN /\ pc' = "stopped"
                /\ running' = FALSE
                /\ last' = [op |-> "run_exit", cause |-> "exception"]
           ELSE /\ pc' = "sleep"
                /\ last' = [op |-> "print_statistics"]
                /\ UNCHANGED running
    /\ UNCHANGED <<config, stop_called, iteration, tf_idx, ohlcv, patterns, eval,
                   ledger, next_uid, now_ms, exchange_calls, exchange_seq>>

\* time.sleep(self.config.poll_interval_seconds)
Sleep ==
    /\ pc = "sleep"
    /\ pc' = "loop"
    /\ UNCHANGED <<config, running, stop_called, iteration, tf_idx, ohlcv, patterns,
                   eval, ledger, next_uid, today, now_ms, exchange_calls,
                   exchange_seq, last>>

\* stop(), called while run() is executing: self.running = False
StopCalled ==
    /\ pc \notin {"idle", "stopped"}
    /\ ~stop_called
    /\ running' = FALSE
    /\ stop_called' = TRUE
    /\ UNCHANGED <<config, pc, iteration, tf_idx, ohlcv, patterns, eval, ledger,
                   next_uid, today, now_ms, exchange_calls, exchange_seq, last>>

\* polling a single timeframe with one trade at a time
OneAtATime == [OneTimeframe EXCEPT !.max_concurrent_trades = 1]

\* the strategy as constructed, or started on a ledger that holds a closed trade
Init ==
    \/ InitWith(OrchConfigs, {EmptyLedger})
    \/ InitWith({OneAtATime}, {ClosedLedger})

Next ==
    \/ Run \/ LoopTest \/ ProcessTimeframe \/ EvaluatePattern \/ PlaceOrder
    \/ RegisterTrade \/ PatternsDone \/ PrintStatistics \/ Sleep \/ StopCalled

\* the strategy: run() on the ledger it was given, until it returns
Spec == Init /\ [][Next]_vars

\* one timeframe polled with room for two open trades and three trades a day
RepeatConfig == [OneTimeframe EXCEPT !.max_trades_per_day = 3]

\* run() polling one timeframe again and again, on a ledger whose statistics
\* step completes
InitRepeat == InitWith({RepeatConfig}, {ClosedLedger})

SpecRepeat == InitRepeat /\ [][Next]_vars

----
(* The process of main.py: run() with the handler main() installs for SIGINT *)
(* and SIGTERM                                                              *)

\* signal_handler: sys.exit(0) raises SystemExit in the main thread wherever
\* run() is; no "except Exception" catches it, the finally block of run() runs
ShutdownSignal ==
    /\ pc \notin {"idle", "stopped"}
    /\ pc' = "stopped"
    /\ running' = FALSE
    /\ last' = [op |-> "run_exit", cause |-> "signal"]
    /\ UNCHANGED <<config, stop_called, iteration, tf_idx, ohlcv, patterns, eval, ledger,
                   next_uid, today, now_ms, exchange_calls, exchange_seq>>

NextMain == Next \/ ShutdownSignal

SpecMain == Init /\ [][NextMain]_vars

----
(* A host calling the Pattern Detector on one candle series                  *)

\* what the bars at positions 5, 11 and 17 may be: flat, a peak or a trough
SpotBars == {FlatBar, Bar(111, 99, 100), Bar(113, 99, 100), Bar(101, 89, 100), Bar(101, 87, 100)}

\* what the last bar may be: flat, a close above the range or below it
LastBars == {FlatBar, Bar(115, 99, 114), Bar(101, 85, 86)}

\* a series of SeriesLen bars, flat but for the three spots and the last bar
SeriesWith(a, b, c, z) ==
    [i \in 1..SeriesLen |->
        IF i = 6 THEN a ELSE IF i = 12 THEN b ELSE IF i = 18 THEN c
        ELSE IF i = SeriesLen THEN z ELSE FlatBar]

\* the series the host may hold: one shorter than min_pattern_bars, and the rest
DetectorSeries ==
    {SeriesFlat} \cup {SeriesWith(a, b, c, z) : a \in SpotBars, b \in SpotBars, c \in SpotBars, z \in LastBars}

\* the patterns the host asks confirm_retest about: one of each kind with its
\* key level at 200, and one of a kind the detector does not know
RetestPatterns ==
    {Pattern("ErectHnS", 95, 180, 200, 220, 200, 0, 0),
     Pattern("InvertedHnS", 95, 220, 200, 180, 200, 0, 0),
     Pattern("DoubleTop", 95, 200, 220, 0, 220, 0, 0),
     Pattern("ErectRect", 98, 200, 0, 0, 0, 200, 180),
     Pattern("InvRect", 98, 200, 0, 0, 0, 220, 200),
     Pattern("Triangle", 95, 200, 200, 220, 200, 200, 180)}

\* a bar around the level 200, and the closes of a last bar: 1.5%, 2% and 2.5%
\* below and above the level
LevelBar == Bar(202, 198, 200)
RetestCloses == {195, 196, 197, 203, 204, 205}

\* a last bar that closes at its extreme
ClosingBar(close) ==
    Bar(IF close > 202 THEN close ELSE 202, IF close < 198 THEN close ELSE 198, close)

\* the series of a retest: four bars (too few), five bars at the level ending
\* in one of the closes, and five bars that stayed far below or above the level
RetestSeries ==
    {<<LevelBar, LevelBar, LevelBar, ClosingBar(c)>> : c \in RetestCloses}
    \cup {<<LevelBar, LevelBar, LevelBar, LevelBar, ClosingBar(c)>> : c \in RetestCloses}
    \cup {[i \in 1..5 |-> Bar(180, 170, 175)], [i \in 1..5 |-> Bar(230, 220, 225)]}

\* the host obtains a candle series
HoldSeries ==
    /\ pc = "idle"
    /\ \E bars \in DetectorSeries \cup RetestSeries : ohlcv' = bars
    /\ pc' = "fetched"
    /\ last' = [op |-> "hold_series"]
    /\ UNCHANGED <<config, running, stop_called, iteration, tf_idx, patterns, eval, ledger,
                   next_uid, today, now_ms, exchange_calls, exchange_seq>>

\* patterns = detector.detect_patterns(ohlcv)
DetectPatterns ==
    /\ pc = "fetched"
    /\ patterns' = detect_patterns(ohlcv)
    /\ pc' = "detected"
    /\ last' = [op |-> "detect_patterns"]
    /\ UNCHANGED <<config, running, stop_called, iteration, tf_idx, ohlcv, eval, ledger,
                   next_uid, today, now_ms, exchange_calls, exchange_seq>>

\* detector.confirm_retest(pattern, ohlcv)
ConfirmRetest ==
    /\ pc = "fetched"
    /\ \E pattern \in RetestPatterns :
        last' = [op |-> "confirm_retest", pattern |-> pattern,
                 ret |-> confirm_retest(pattern, ohlcv)]
    /\ pc' = "retested"
    /\ UNCHANGED <<config, running, stop_called, iteration, tf_idx, ohlcv, patterns, eval,
                   ledger, next_uid, today, now_ms, exchange_calls, exchange_seq>>

InitDetect == InitWith({DefaultConfig}, {EmptyLedger})

NextDetect == HoldSeries \/ DetectPatterns \/ ConfirmRetest

SpecDetect == InitDetect /\ [][NextDetect]_vars

----
(* A host calling the Position Sizer                                         *)

\* sizers with a risk of 1% and of 2% of the balance
SizerConfigs == {[DefaultConfig EXCEPT !.risk_pct = r] : r \in {1, 2}}

HostBalances == {-100, 0, 100, 10000}
HostPrices == {-5, 0, 95, 100, 105}

\* the sizes a host asks about, and the bounds it passes: the defaults, which
\* are what the strategy passes, and explicit ones
HostSizeArgs == {RZero, <<1, 10000>>, <<1, 20000>>, <<1, 2>>, <<1, 1>>, <<2, 1>>, <<100, 1>>, <<101, 1>>, <<-1, 1>>}
HostSizeBounds ==
    {[explicit |-> FALSE, min_size |-> DefaultMinSize, max_size |-> DefaultMaxSize],
     [explicit |-> TRUE, min_size |-> <<1, 2>>, max_size |-> <<2, 1>>],
     [explicit |-> TRUE, min_size |-> <<1, 1>>, max_size |-> <<1, 1>>]}

\* position_sizer.calculate_position_size(account_balance, entry_price, stop_loss_price)
CalculatePositionSize ==
    /\ \E account_balance \in HostBalances, entry_price \in HostPrices, stop_loss_price \in HostPrices :
        last' = [op |-> "calculate_position_size", account_balance |-> account_balance,
                 entry_price |-> entry_price, stop_loss_price |-> stop_loss_price,
                 ret |-> calculate_position_size(config, account_balance, entry_price,
                                                 RInt(stop_loss_price))]
    /\ UNCHANGED <<config, pc, running, stop_called, iteration, tf_idx, ohlcv, patterns, eval,
                   ledger, next_uid, today, now_ms, exchange_calls, exchange_seq>>

\* position_sizer.is_size_allowed(size) and is_size_allowed(size, min_size, max_size)
IsSizeAllowed ==
    /\ \E size \in HostSizeArgs, b \in HostSizeBounds :
        last' = [op |-> "is_size_allowed", size |-> size, explicit |-> b.explicit,
                 min_size |-> b.min_size, max_size |-> b.max_size,
                 ret |-> is_size_allowed(size, b.min_size, b.max_size)]
    /\ UNCHANGED <<config, pc, running, stop_called, iteration, tf_idx, ohlcv, patterns, eval,
                   ledger, next_uid, today, now_ms, exchange_calls, exchange_seq>>

InitSize == InitWith(SizerConfigs, {EmptyLedger})

NextSize == CalculatePositionSize \/ IsSizeAllowed

SpecSize == InitSize /\ [][NextSize]_vars

----
(* Properties of the Risk Manager (checked under SpecRM) *)

\* positions of the Trade object uid in a list of trades
Occurrences(ts, uid) == {i \in 1..Len(ts) : ts[i].uid = uid}

\* C2: every Trade object ever passed to add_trade is in exactly one of
\* open_trades and closed_trades, once, with the status of the list it is in.
C2_ExactlyOneList ==
    \A uid \in 1..(next_uid - 1) :
        /\ Cardinality(Occurrences(open_trades, uid))
             + Cardinality(Occurrences(closed_trades, uid)) = 1
        /\ \A i \in Occurrences(open_trades, uid) : open_trades[i].status = "open"
        /\ \A i \in Occurrences(closed_trades, uid) : closed_trades[i].status = "closed"

\* a trade was closed while another trade with the same order id stays open
C2_Witness ==
    /\ last.op = "close_trade" /\ last.found
    /\ \E i \in 1..Len(open_trades), j \in 1..Len(closed_trades) :
        open_trades[i].order_id = closed_trades[j].order_id

\* the checks of the last can_open_trade call, on the ledger it was called on
GateConc == last.n_open >= config.max_concurrent_trades
GateDaily == last.daily_trades >= config.max_trades_per_day
GateLoss ==
    last.daily_pnl[1] * 100
        < -(last.account_balance * config.daily_loss_limit_pct) * last.daily_pnl[2]

\* C7: can_open_trade returns the denial of the first failing check in the order
\* concurrency, daily count, daily loss, news; at or above max_concurrent_trades
\* it denies with the concurrency reason whatever the other arguments are.
C7_GateOrder ==
    last.op = "can_open_trade" =>
        /\ GateConc => (~last.ok /\ last.reason = "Max concurrent trades reached")
        /\ (~GateConc /\ GateDaily) =>
               (~last.ok /\ last.reason = "Max daily trades reached")
        /\ (~GateConc /\ ~GateDaily /\ GateLoss) =>
               (~last.ok /\ last.reason = "Daily loss limit reached")
        /\ (~GateConc /\ ~GateDaily /\ ~GateLoss /\ last.news) =>
               (~last.ok /\ last.reason = "High-impact news nearby")
        /\ (~GateConc /\ ~GateDaily /\ ~GateLoss /\ ~last.news) =>
               (last.ok /\ last.reason = "OK")

\* the gate was called at capacity with the loss limit and the news check failing too
C7_Witness ==
    /\ last.op = "can_open_trade"
    /\ GateConc /\ GateLoss /\ last.news
    /\ last.reason = "Max concurrent trades reached"

\* C8: a can_open_trade call leaves open_trades, closed_trades and daily_stats
\* (its day keys included) as they were, whether it approves or denies.
C8_GatePure == [][CanOpenTrade => UNCHANGED ledger]_vars

\* the gate approved on a day that has no daily_stats entry
C8_Witness ==
    /\ last.op = "can_open_trade" /\ last.ok
    /\ today \notin DOMAIN daily_stats
    /\ Len(open_trades) > 0

\* C9: close_trade with an order id that is not in open_trades raises nothing and
\* leaves open_trades, closed_trades and daily_stats unchanged.
C9_CloseAbsentNoop ==
    [][(CloseTrade /\ ~\E i \in 1..Len(open_trades) :
                          open_trades[i].order_id = last'.order_id)
          => (UNCHANGED ledger /\ ~last'.raised /\ ~last'.found)]_vars

\* a second close_trade of an order id that was closed before and is not open
C9_Witness ==
    /\ last.op = "close_trade" /\ ~last.found
    /\ \E j \in 1..Len(closed_trades) :
        /\ closed_trades[j].order_id = last.order_id
        /\ closed_trades[j].pnl # RZero
    /\ ~\E i \in 1..Len(open_trades) : open_trades[i].order_id = last.order_id

----
(* Properties of the Order Executor (checked under SpecEx) *)

\* C10: in dry-run mode place_order, cancel_order and get_order_status send
\* nothing to the exchange connector, and place_order returns success.
C10_DryRunNoExchange ==
    (ExecutorMode = "dry_run"
       /\ last.op \in {"place_order", "cancel_order", "get_order_status"}) =>
        /\ exchange_calls = <<>>
        /\ exchange_seq = 0
        /\ last.op = "place_order" => last.result.success

\* a dry-run place_order for which the connector would have rejected the order
C10_Witness ==
    /\ ExecutorMode = "dry_run"
    /\ last.op = "place_order"
    /\ last.side = "sell"
    /\ last.result.success
    /\ last.result.order_id[1] = "DRY"

----
(* Properties of the Strategy Orchestrator (checked under Spec) *)

\* the places in the call log of an evaluation where fn was called
CallsOf(e, fn) == IF e.active THEN {i \in 1..Len(e.calls) : e.calls[i].fn = fn} ELSE {}

\* C1: while run() is running and stop() has not been called the loop never
\* ends, in every ledger state: run() is left only after a stop() call.
C1_LoopNeverEnds == (pc = "stopped") => stop_called

\* C3: every place_order call of an evaluation is preceded, in the same
\* evaluation, by a can_open_trade call that returned approval, and no
\* can_open_trade call follows it; the order is reached only on approval.
C3_GateBeforeOrder ==
    /\ (pc = "place_order") =>
            \E j \in CallsOf(eval, "can_open_trade") : eval.calls[j].ret
    /\ \A i \in CallsOf(eval, "place_order") :
            /\ \E j \in CallsOf(eval, "can_open_trade") : j < i /\ eval.calls[j].ret
            /\ \A j \in CallsOf(eval, "can_open_trade") : j < i

\* a second order of the run was submitted, after the gate approved it with a
\* trade already open
C3_Witness ==
    /\ CallsOf(eval, "place_order") # {}
    /\ CallsOf(eval, "add_trade") = {}
    /\ open_trades # <<>>
    /\ eval.order_result.success

\* C4: place_order is never called with size 0; an evaluation whose
\* calculate_position_size returned 0 ends there, with no order and with the
\* ledger as it was.
C4_NoZeroSizeOrder ==
    /\ [](/\ (pc = "place_order") => RLess(RZero, eval.position_size)
          /\ (CallsOf(eval, "place_order") # {}) => RLess(RZero, eval.position_size)
          /\ (CallsOf(eval, "is_size_allowed") # {} /\ eval.position_size = RZero) =>
                /\ eval.outcome = "size_rejected"
                /\ CallsOf(eval, "place_order") = {}
                /\ CallsOf(eval, "add_trade") = {})
    /\ [][(/\ EvaluatePattern
           /\ CallsOf(eval', "is_size_allowed") # {}
           /\ eval'.position_size = RZero)
          => (UNCHANGED <<ledger, next_uid, exchange_calls>> /\ pc' = "pattern")]_vars

\* an evaluation computed size 0 (the stop equals the entry, or the stop is
\* not positive) and was rejected
C4_Witness ==
    /\ CallsOf(eval, "is_size_allowed") # {}
    /\ eval.position_size = RZero
    /\ eval.outcome = "size_rejected"
    /\ eval.account_balance > 0

\* C5: for every submitted order the stop-loss and the take-profit are on the
\* correct side of the entry (buy: stop < entry < target; sell: target <
\* entry < stop), for every configuration.
C5_StopsOnCorrectSide ==
    (CallsOf(eval, "place_order") # {}) =>
        IF eval.side = "buy"
        THEN /\ RLess(eval.sl_price, RInt(eval.entry_price))
             /\ eval.entry_price < eval.tp_price
        ELSE /\ eval.tp_price < eval.entry_price
             /\ RLess(RInt(eval.entry_price), eval.sl_price)

\* C6: place_order is reached only after confirm_retest returned true for
\* the pattern of the evaluation and the candles of its timeframe.
C6_RetestBeforeOrder ==
    (eval.active /\ (pc = "place_order" \/ CallsOf(eval, "place_order") # {})) =>
        /\ confirm_retest(eval.pattern, ohlcv)
        /\ \E j \in CallsOf(eval, "confirm_retest") :
                /\ eval.calls[j].ret
                /\ \A i \in CallsOf(eval, "place_order") : j < i

\* an order was submitted for a rectangle whose retest was confirmed
C6_Witness ==
    /\ CallsOf(eval, "place_order") # {}
    /\ eval.pattern.type = "ErectRect"
    /\ confirm_retest(eval.pattern, ohlcv)

\* C11: in dry-run mode any two place_order calls of one executor return
\* different order ids, also within one clock millisecond: the trades the
\* orchestrator registered from them carry pairwise different order ids.
C11_UniqueDryIds ==
    (ExecutorMode = "dry_run") =>
        \A i, j \in 1..Len(open_trades) :
            i # j => open_trades[i].order_id # open_trades[j].order_id

----
(* Properties of the Order Executor in live mode (checked under SpecEx) *)

\* the message place_order's handlers give for an error category of the connector
CategoryMessage(category) ==
    CASE category = "InsufficientFunds" -> "Insufficient funds"
      [] category = "InvalidOrder" -> "Invalid order"
      [] category = "NetworkError" -> "Network error"
      [] OTHER -> "Unexpected error"

\* the exchange accepted the primary order of the last place_order call
PrimaryAccepted ==
    /\ last.op = "place_order"
    /\ ExecutorMode # "dry_run"
    /\ last.primary = "accepted"

\* C12: in live mode, when the primary order is accepted, place_order returns
\* success with the primary order's id whatever became of the two legs; the
\* primary is never cancelled, and the take-profit leg is sent also when the
\* stop-loss leg failed.
C12_LegsDoNotFailOrder ==
    PrimaryAccepted =>
        /\ last.result.success
        /\ last.result.order_id = <<"EX", exchange_seq>>
        /\ Len(exchange_calls) = 3
        /\ \A k \in 1..Len(exchange_calls) : exchange_calls[k].method = "create_order"
        /\ ~exchange_calls[1].reduce_only
        /\ exchange_calls[2].type = "stop_market" /\ exchange_calls[2].reduce_only
        /\ exchange_calls[3].type = "limit" /\ exchange_calls[3].reduce_only

\* the primary was accepted and the stop-loss leg failed
C12_Witness ==
    /\ PrimaryAccepted
    /\ last.sl_order = "None"
    /\ last.result.success

\* C13: in live mode, when the connector rejects the primary order with
\* insufficient funds, an invalid order or a network failure, place_order
\* returns a failed result whose message names that category.
C13_CategoryInMessage ==
    (/\ last.op = "place_order"
     /\ ExecutorMode # "dry_run"
     /\ last.primary \in {"InsufficientFunds", "InvalidOrder", "NetworkError"}) =>
        /\ ~last.result.success
        /\ last.result.error = CategoryMessage(last.primary)

----
(* Properties of the control loop (checked under Spec) *)

\* C14: once stop() was called during run(), no further iteration starts: the
\* iteration counter stays, the pass over the timeframes is not restarted,
\* and the next loop test leaves run().
C14_NoIterationAfterStop ==
    [][stop_called =>
        /\ iteration' = iteration
        /\ tf_idx' >= tf_idx
        /\ (pc = "loop" => pc' = "stopped")]_vars

\* run() returned because stop() was called during the second iteration
C14_Witness ==
    /\ stop_called
    /\ pc = "stopped"
    /\ last = [op |-> "run_exit", cause |-> "stop"]
    /\ iteration = 2

\* the Trade _process_pattern builds from the evaluation e and its order result
TradeOf(e, uid) ==
    Trade(uid, e.order_result.order_id, e.side, e.position_size, e.entry_price,
          e.sl_price, e.tp_price, e.pattern.type)

\* C17: after a successful place_order exactly one Trade with the returned
\* order id and the submitted side, size, entry, stop-loss and take-profit is
\* appended to open_trades and the trade count of the day grows by one; after a
\* failed one the ledger is unchanged. place_order itself changes no ledger.
C17_OrderAndLedger ==
    /\ []((eval.active /\ pc # "register") =>
            \A i \in CallsOf(eval, "place_order") :
                IF eval.calls[i].ret
                THEN /\ Cardinality(CallsOf(eval, "add_trade")) = 1
                     /\ open_trades # <<>>
                     /\ open_trades[Len(open_trades)] = TradeOf(eval, next_uid - 1)
                ELSE CallsOf(eval, "add_trade") = {})
    /\ [][PlaceOrder => UNCHANGED <<ledger, next_uid>>]_vars
    /\ [][RegisterTrade =>
            IF eval.order_result.success
            THEN /\ open_trades' = Append(open_trades, TradeOf(eval, next_uid))
                 /\ closed_trades' = closed_trades
                 /\ DailyTradeCount(daily_stats', today')
                        = DailyTradeCount(daily_stats, today') + 1
                 /\ \A d \in DOMAIN daily_stats :
                        d # today' => daily_stats'[d] = daily_stats[d]
            ELSE UNCHANGED <<ledger, next_uid>>]_vars

\* a live order was accepted and its trade registered on a later day than the
\* one the risk gate read
C17_Witness ==
    /\ last.op = "add_trade"
    /\ CallsOf(eval, "add_trade") # {}
    /\ ExecutorMode = "live"
    /\ open_trades[Len(open_trades)].order_id = <<"EX", 1>>
    /\ today = 2

\* the side each pattern kind is traded on
SideTable ==
    [ErectHnS |-> "sell", InvertedHnS |-> "buy", DoubleTop |-> "sell",
     ErectRect |-> "buy", InvRect |-> "sell"]

\* a formation of a kind outside the five, at the level of the candidates
UnknownPattern == Pattern("Triangle", 95, 100, 100, 110, 100, 100, 90)

\* C18: every submitted order has the side the table gives for the kind of its
\* pattern, and its kind is in the configured allow-list; a pattern of another
\* kind reaches no order, also when the allow-list names its kind.
C18_SideByKind ==
    /\ (eval.active /\ (pc = "place_order" \/ CallsOf(eval, "place_order") # {})) =>
            /\ eval.pattern.type \in DOMAIN SideTable
            /\ eval.pattern.type \in config.allowed_patterns
            /\ eval.side = SideTable[eval.pattern.type]
    /\ (eval.active /\ eval.pattern.type \notin config.allowed_patterns) =>
            eval.outcome = "not_allowed" /\ eval.calls = <<>>
    /\ \A bars \in CandleSeries \ {<<>>}, bal \in BalanceResults :
            process_pattern_checks(
                [config EXCEPT !.allowed_patterns = @ \cup {UnknownPattern.type}],
                UnknownPattern, bars, bal, open_trades, daily_stats, today
            ).eval.outcome \in {"no_retest", "no_side"}

\* an order was submitted for a downward rectangle breakout, as a sell
C18_Witness ==
    /\ CallsOf(eval, "place_order") # {}
    /\ eval.pattern.type = "InvRect"
    /\ eval.side = "sell"

\* C19: a timeframe pass whose candle series is empty, or during which the
\* news gate reports a high-impact event, evaluates no pattern, submits no
\* order and leaves the ledger unchanged; the loop goes on to the next
\* timeframe.
C19_EmptyOrNewsSkips ==
    [][(/\ ProcessTimeframe
        /\ last'.op = "process_timeframe"
        /\ (last'.candles = "empty" \/ last'.news = "high_impact"))
       => /\ UNCHANGED <<ledger, next_uid, exchange_calls, exchange_seq, eval, running>>
          /\ pc' = "timeframes"
          /\ tf_idx' = tf_idx + 1]_vars

\* the first of two timeframes was skipped for news and the second is next
C19_Witness ==
    /\ last.op = "process_timeframe"
    /\ last.news = "high_impact"
    /\ pc = "timeframes"
    /\ tf_idx = 2
    /\ Len(config.timeframes) = 2
    /\ running

\* C20: along the list one detect_patterns call returns, formation_bar_index
\* never decreases from one pattern to the next.
C20_FormationIndexSorted ==
    (pc = "detected") =>
        \A i \in 1..(Len(patterns) - 1) :
            patterns[i].formation_bar_index <= patterns[i + 1].formation_bar_index

\* the level a retest is measured against: the right shoulder of a
\* head-and-shoulders formation, the neckline of the other kinds
KeyLevel(pattern) ==
    IF pattern.type \in {"ErectHnS", "InvertedHnS"} THEN pattern.right_shoulder
    ELSE pattern.neckline_price

\* the kinds that break out downwards
BreaksDown == {"ErectHnS", "DoubleTop", "InvRect"}

\* C21: confirm_retest returns true only for a known kind and five bars or
\* more, of which one of the last five came within 2% of the key level, with
\* the latest close at least 2% away from the level in the breakout direction.
C21_RetestNeedsTwoPercent ==
    (last.op = "confirm_retest" /\ last.ret) =>
        LET level == KeyLevel(last.pattern)
            close == ohlcv[Len(ohlcv)].close
        IN  /\ Len(ohlcv) >= 5
            /\ last.pattern.type \in PatternTypes
            /\ \E i \in (Len(ohlcv) - 4)..Len(ohlcv) :
                \/ 100 * Abs(ohlcv[i].high - level) <= 2 * level
                \/ 100 * Abs(ohlcv[i].low - level) <= 2 * level
            /\ IF last.pattern.type \in BreaksDown
               THEN 100 * close <= 98 * level
               ELSE 100 * close >= 102 * level

\* a step in which a collaborator raised: the candle fetch or the news lookup
\* of a timeframe, the balance fetch of an evaluation, or the connector during
\* the order submission
CollaboratorRaised ==
    \/ ProcessTimeframe /\ last'.op = "process_timeframe" /\ last'.outcome = "error"
    \/ EvaluatePattern /\ eval'.outcome = "balance_error"
    \/ PlaceOrder /\ ~last'.result.success

----
(* Properties of the process under shutdown signals (checked under SpecMain) *)

\* C15: a shutdown signal never interrupts a pattern evaluation: the process
\* never stops between a successful place_order and the matching add_trade.
C15_SignalAtBoundary ==
    (pc = "stopped" /\ eval.active) =>
        \A i \in CallsOf(eval, "place_order") :
            eval.calls[i].ret => \E j \in CallsOf(eval, "add_trade") : i < j

----
(* Further properties of the Risk Manager (checked under SpecRM) *)

\* C24: close_trade on an open trade records the PnL (exit - entry) * size for
\* a buy and (entry - exit) * size for a sell, adds exactly that PnL to the
\* pnl of the day of the close, and changes no day's trade_count.
C24_ClosePnl ==
    [][(CloseTrade /\ last'.found) =>
        LET trade == open_trades[FirstIndex(open_trades, last'.order_id)]
            closed == closed_trades'[Len(closed_trades')]
            pnl == IF trade.side = "buy"
                   THEN RMulInt(trade.size, closed.exit_price - trade.entry_price)
                   ELSE RMulInt(trade.size, trade.entry_price - closed.exit_price)
            days == DOMAIN daily_stats \cup DOMAIN daily_stats'
        IN  /\ closed.uid = trade.uid
            /\ closed.pnl = pnl
            /\ DailyPnl(daily_stats', today) = RAdd(DailyPnl(daily_stats, today), pnl)
            /\ \A d \in days \ {today} : DailyPnl(daily_stats', d) = DailyPnl(daily_stats, d)
            /\ \A d \in days :
                DailyTradeCount(daily_stats', d) = DailyTradeCount(daily_stats, d)]_vars

\* a sell was closed below its entry, at a gain, on a day after the day it was
\* opened on
C24_Witness ==
    /\ last.op = "close_trade" /\ last.found
    /\ closed_trades # <<>>
    /\ LET closed == closed_trades[Len(closed_trades)]
       IN  /\ closed.side = "sell"
           /\ closed.exit_price < closed.entry_price
           /\ RLess(RZero, closed.pnl)
           /\ DailyPnl(daily_stats, today) = closed.pnl
           /\ today > 1
           /\ DailyTradeCount(daily_stats, 1) = 1

----
(* Further properties of the Order Executor (checked under SpecEx) *)

\* C27: place_order calls the connector's create_order only when the trade
\* mode is exactly "live"; under every other mode value nothing is sent to the
\* exchange.
C27_OnlyLiveReachesExchange ==
    (last.op = "place_order" /\ ExecutorMode # "live") => exchange_calls = <<>>

\* C29: in live mode a place_order whose primary order failed returns a failed
\* result and sends no leg; a reduce-only order reaches the exchange only
\* after an accepted primary order, on the opposite side and with the same
\* size.
C29_LegsOnlyAfterPrimary ==
    (last.op = "place_order" /\ ExecutorMode = "live") =>
        /\ exchange_calls # <<>>
        /\ ~exchange_calls[1].reduce_only
        /\ exchange_calls[1].side = last.side
        /\ (last.primary # "accepted") =>
                (~last.result.success /\ Len(exchange_calls) = 1)
        /\ \A i \in 1..Len(exchange_calls) :
                exchange_calls[i].reduce_only =>
                    /\ i > 1
                    /\ last.primary = "accepted"
                    /\ exchange_calls[i].side # last.side
                    /\ exchange_calls[i].amount = last.size

\* a live sell whose primary order met a network error: one call, no leg
C29_Witness ==
    /\ last.op = "place_order"
    /\ ExecutorMode = "live"
    /\ last.primary = "NetworkError"
    /\ last.side = "sell"
    /\ ~last.result.success
    /\ Len(exchange_calls) = 1

----
(* Further properties of the Strategy Orchestrator (checked under Spec) *)

\* C25: the number of open trades never exceeds max_concurrent_trades; from
\* the approval of can_open_trade to the add_trade of the same evaluation
\* open_trades does not change, and add_trade finds it below the limit.
C25_OpenWithinLimit ==
    /\ [](Len(open_trades) <= config.max_concurrent_trades)
    /\ [][(pc \in {"place_order", "register"}) =>
            \/ open_trades' = open_trades
            \/ /\ RegisterTrade
               /\ Len(open_trades) < config.max_concurrent_trades
               /\ Len(open_trades') = Len(open_trades) + 1]_vars

\* the trade that fills the limit of two open trades was registered
C25_Witness ==
    /\ last.op = "add_trade"
    /\ config.max_concurrent_trades = 2
    /\ Len(open_trades) = 2

\* C26: the statistics step completes in every ledger state: get_statistics
\* returns the open-trade count, the trade count and the PnL of the day, and
\* _print_statistics goes on to the sleep of the iteration.
C26_StatisticsComplete ==
    [][PrintStatistics =>
        /\ {"open_trades", "daily_trades", "daily_pnl"}
             \subseteq DOMAIN get_statistics(open_trades, closed_trades, daily_stats, today')
        /\ pc' = "sleep"]_vars

\* C28: run() never closes a trade: closed_trades stays as it was when run()
\* started (empty for the strategy as constructed), the number of open trades
\* never decreases, and no order is submitted while it is at
\* max_concurrent_trades, in whatever iteration.
C28_NeverCloses ==
    /\ [](config \in OrchConfigs => closed_trades = <<>>)
    /\ [](pc \in {"place_order", "register"} =>
            Len(open_trades) < config.max_concurrent_trades)
    /\ [][/\ closed_trades' = closed_trades
          /\ Len(open_trades') >= Len(open_trades)
          /\ PlaceOrder => Len(open_trades) < config.max_concurrent_trades]_vars

\* in the second iteration, with the limit reached in the first, a confirmed
\* pattern was denied by the risk gate
C28_Witness ==
    /\ iteration = 2
    /\ Len(open_trades) = config.max_concurrent_trades
    /\ eval.active
    /\ eval.outcome = "gate_denied"
    /\ exchange_seq + Len(open_trades) > 0

----
(* Properties of repeated polling (checked under SpecRepeat) *)

\* the open trade came from the formation and the candle data of the
\* evaluation: the same kind, entered at the same last close with the same
\* stop (the inputs hold one formation of each kind, and one series a close)
SameFormation(trade, e) ==
    /\ trade.pattern_type = e.pattern.type
    /\ trade.entry_price = e.entry_price
    /\ trade.stop_loss = e.sl_price

\* C30: a formation triggers at most one order: no successful order is
\* registered for a formation, found again over unchanged candle data, that
\* an open trade was already registered for.
C30_OneOrderPerFormation ==
    [][(RegisterTrade /\ eval.order_result.success) =>
        \A i \in 1..Len(open_trades) : ~SameFormation(open_trades[i], eval)]_vars

----
(* Properties of the Position Sizer (checked under SpecSize) *)

\* C22: calculate_position_size returns 0 for a balance, an entry or a stop
\* that is not positive and for an entry equal to the stop; otherwise it
\* returns (balance * risk_pct) / |entry - stop|; the result is never negative.
C22_SizeFormula ==
    (last.op = "calculate_position_size") =>
        /\ last.ret =
            IF \/ last.account_balance <= 0
               \/ last.entry_price <= 0
               \/ last.stop_loss_price <= 0
               \/ last.entry_price = last.stop_loss_price
            THEN RZero
            ELSE Rat(last.account_balance * config.risk_pct,
                     100 * Abs(last.entry_price - last.stop_loss_price))
        /\ RLeq(RZero, last.ret)

\* balance 10000 at 2% risk, entry 100 and stop 95: a size of 40; and a stop
\* above the entry of a short trade sized just the same
C22_Witness ==
    /\ last.op = "calculate_position_size"
    /\ config.risk_pct = 2
    /\ last.account_balance = 10000
    /\ last.entry_price = 100
    /\ last.stop_loss_price \in {95, 105}
    /\ last.ret = <<40, 1>>

====
